---------------------------- MODULE Spec2Model ----------------------------
(***************************************************************************)
(* The autonomous action loop of src/autonomous_web_agent.py:             *)
(* MockMultiOnClient (create_session, execute_task, determine_action,     *)
(* execute_action, take_screenshot, close_session) and the driver         *)
(* autonomous_process.                                                     *)
(*                                                                         *)
(* Texts (directives, URLs, element texts) are sequences of one-character *)
(* strings, so that upper(), strip(), split(), startswith() and `in` are  *)
(* computed the way Python computes them.                                  *)
(***************************************************************************)
EXTENDS Integers, Sequences, FiniteSets, TLC

VARIABLES
    agent,      \* the MockMultiOnClient object: its attributes
    web,        \* the browser side: processes started, page shown, scroll offset
    pc,         \* position of autonomous_process
    url,        \* argument of autonomous_process
    max_steps,  \* argument of autonomous_process
    steps,      \* the trace built by autonomous_process
    step,       \* driver local: number of the next iteration
    status,     \* driver local
    last_action,        \* driver local
    repeated_actions,   \* driver local
    result,     \* what autonomous_process returned
    closeCalls, \* observation: how many times close_session was called
    call,       \* observation: what the latest execute_task call did
    hist,       \* observation: per driver iteration, what was decided and executed
    peer        \* a second autonomous_process run while this one runs: its locals

vars == <<agent, web, pc, url, max_steps, steps, step, status, last_action,
          repeated_actions, result, closeCalls, call, hist,
          peer>>

-----------------------------------------------------------------------------
(* Bounds of the model.                                                    *)

MaxSteps == 5
MaxStepCount == 9

\* Largest max_steps of a session whose model never gives up.
LongSteps == 11

\* Largest max_steps of two runs taken together.
PairSteps == 2

-----------------------------------------------------------------------------
(* Python string operations on sequences of characters.                    *)

LowerLetters ==
    <<"a", "b", "c", "d", "e", "f", "g", "h", "i", "j", "k", "l", "m",
      "n", "o", "p", "q", "r", "s", "t", "u", "v", "w", "x", "y", "z">>

UpperLetters ==
    <<"A", "B", "C", "D", "E", "F", "G", "H", "I", "J", "K", "L", "M",
      "N", "O", "P", "Q", "R", "S", "T", "U", "V", "W", "X", "Y", "Z">>

Whitespace == {" ", "\n", "\t"}

UpperChar(c) ==
    IF \E i \in 1..26 : LowerLetters[i] = c
    THEN UpperLetters[CHOOSE i \in 1..26 : LowerLetters[i] = c]
    ELSE c

LowerChar(c) ==
    IF \E i \in 1..26 : UpperLetters[i] = c
    THEN LowerLetters[CHOOSE i \in 1..26 : UpperLetters[i] = c]
    ELSE c

\* str.upper()
Upper(s) == [i \in 1..Len(s) |-> UpperChar(s[i])]

\* str.lower()
Lower(s) == [i \in 1..Len(s) |-> LowerChar(s[i])]

\* s.startswith(p)
StartsWith(s, p) == Len(p) <= Len(s) /\ SubSeq(s, 1, Len(p)) = p

\* index of the first occurrence of sub in s, 0 when there is none (s.find(sub) + 1)
Find(s, sub) ==
    LET hits == {i \in 1..(Len(s) - Len(sub) + 1) : SubSeq(s, i, i + Len(sub) - 1) = sub}
    IN  IF hits = {} THEN 0 ELSE CHOOSE i \in hits : \A j \in hits : i <= j

\* sub in s
Contains(s, sub) == Find(s, sub) > 0

\* s[n:]
DropFirst(s, n) == SubSeq(s, n + 1, Len(s))

\* s.strip()
Strip(s) ==
    LET keep == {i \in 1..Len(s) : s[i] \notin Whitespace}
    IN  IF keep = {} THEN <<>>
        ELSE SubSeq(s, CHOOSE i \in keep : \A j \in keep : i <= j,
                       CHOOSE i \in keep : \A j \in keep : i >= j)

\* s.split(sep)[1], for a text s that contains sep
SplitSecond(s, sep) ==
    LET rest == DropFirst(s, Find(s, sep) + Len(sep) - 1)
        j == Find(rest, sep)
    IN  IF j = 0 THEN rest ELSE SubSeq(rest, 1, j - 1)

\* s.split(): the whitespace-delimited tokens of s
RECURSIVE SplitWords(_)
SplitWords(s) ==
    LET starts == {i \in 1..Len(s) : s[i] \notin Whitespace}
    IN  IF starts = {} THEN <<>>
        ELSE LET b == CHOOSE i \in starts : \A j \in starts : i <= j
                 stops == {i \in b..Len(s) : s[i] \in Whitespace}
                 e == IF stops = {} THEN Len(s) + 1
                      ELSE CHOOSE i \in stops : \A j \in stops : i <= j
             IN  <<SubSeq(s, b, e - 1)>> \o SplitWords(DropFirst(s, e - 1))

\* " ".join(parts)
RECURSIVE JoinSpace(_)
JoinSpace(parts) ==
    IF parts = <<>> THEN <<>>
    ELSE IF Len(parts) = 1 THEN parts[1]
    ELSE parts[1] \o <<" ">> \o JoinSpace(Tail(parts))

-----------------------------------------------------------------------------
(* The literal texts of the program.                                       *)

\* "TASK_COMPLETE"
kTASK_COMPLETE ==
    <<"T", "A", "S", "K", "_", "C", "O", "M", "P", "L", "E", "T", "E">>

\* "TASK_FAILED"
kTASK_FAILED ==
    <<"T", "A", "S", "K", "_", "F", "A", "I", "L", "E", "D">>

kCLICK ==
    <<"C", "L", "I", "C", "K">>

kFILL ==
    <<"F", "I", "L", "L">>

kSCROLL ==
    <<"S", "C", "R", "O", "L", "L">>

kNAVIGATE ==
    <<"N", "A", "V", "I", "G", "A", "T", "E">>

kSEARCH ==
    <<"S", "E", "A", "R", "C", "H">>

kbutton ==
    <<"b", "u", "t", "t", "o", "n">>

klink ==
    <<"l", "i", "n", "k">>

kQuote ==
    <<"'">>

khttp ==
    <<"h", "t", "t", "p">>

kSchemeSep ==
    <<":", "/", "/">>

kemail ==
    <<"e", "m", "a", "i", "l">>

ktext ==
    <<"t", "e", "x", "t">>

kname ==
    <<"n", "a", "m", "e">>

ksearch ==
    <<"s", "e", "a", "r", "c", "h">>

ktextarea ==
    <<"t", "e", "x", "t", "a", "r", "e", "a">>

kinput ==
    <<"i", "n", "p", "u", "t">>

\* the action text of a record written by the driver for a fault it caught
kERROR ==
    <<"E", "R", "R", "O", "R">>

kStarted ==
    <<"S", "t", "a", "r", "t", "e", "d", " ", "s", "e", "s", "s", "i", "o",
      "n", " ", "o", "n", " ">>

-----------------------------------------------------------------------------
(* Inputs: model responses, URLs, element texts.                           *)

tClickGo ==
    <<"C", "L", "I", "C", "K", " ", "b", "u", "t", "t", "o", "n", " ", "'",
      "G", "o", "'">>

tClickPricing ==
    <<"C", "L", "I", "C", "K", " ", "l", "i", "n", "k", " ", "'", "P", "r",
      "i", "c", "i", "n", "g", "'">>

tFillEmail ==
    <<"F", "I", "L", "L", " ", "e", "m", "a", "i", "l", " ", "t", "e", "s",
      "t", "@", "e", "x", "a", "m", "p", "l", "e", ".", "c", "o", "m">>

\* a response with surrounding whitespace, which strip() removes
tScrollPadded ==
    <<" ", "S", "C", "R", "O", "L", "L", "\n">>

tNavHome ==
    <<"N", "A", "V", "I", "G", "A", "T", "E", " ", "h", "t", "t", "p", "s",
      ":", "/", "/", "a", ".", "i", "o">>

tLowerFailed ==
    <<"t", "a", "s", "k", "_", "f", "a", "i", "l", "e", "d">>

\* a response that matches no action keyword
tThink ==
    <<"L", "e", "t", " ", "m", "e", " ", "t", "h", "i", "n", "k">>

\* an empty completion
tEmpty ==
    <<>>

\* a response that holds a marker among other text
tFailedPadded ==
    <<" ", "T", "A", "S", "K", "_", "F", "A", "I", "L", "E", "D", " ", "n", "o",
      "w", "\n">>

\* CLICK in lower case, no quoted target
tClickLower ==
    <<"c", "l", "i", "c", "k", " ", "B", "u", "t", "t", "o", "n">>

\* a target whose closing quote is missing
tClickOneQuote ==
    <<"C", "L", "I", "C", "K", " ", "b", "u", "t", "t", "o", "n", " ", "'",
      "G", "o">>

\* contains link and button; no element's text contains the target
tClickBoth ==
    <<"C", "L", "I", "C", "K", " ", "l", "i", "n", "k", "e", "d", " ", "b",
      "u", "t", "t", "o", "n", " ", "'", "Z", "z", "'">>

\* names neither button nor link
tClickBare ==
    <<"C", "L", "I", "C", "K", " ", "'", "G", "o", "'">>

\* a link, no quoted target
tClickLink ==
    <<"C", "L", "I", "C", "K", " ", "l", "i", "n", "k">>

\* FILL with two tokens
tFillTwo ==
    <<"F", "I", "L", "L", " ", "e", "m", "a", "i", "l">>

\* a field no selector finds, a value of two tokens two spaces apart
tFillSpaced ==
    <<"F", "I", "L", "L", " ", "q", " ", "a", " ", " ", "b">>

\* a URL of scheme http
tNavHttp ==
    <<"N", "A", "V", "I", "G", "A", "T", "E", " ", "h", "t", "t", "p", ":",
      "/", "/", "a", ".", "i", "o">>

\* a URL that contains http again
tNavTwice ==
    <<"N", "A", "V", "I", "G", "A", "T", "E", " ", "h", "t", "t", "p", "s",
      ":", "/", "/", "a", ".", "i", "o", "/", "p", "?", "r", "=", "h", "t",
      "t", "p">>

\* no URL
tNavBare ==
    <<"N", "A", "V", "I", "G", "A", "T", "E", " ", "h", "o", "m", "e">>

tSearch ==
    <<"S", "E", "A", "R", "C", "H", " ", " ", "p", "r", "i", "c", "i", "n",
      "g">>

\* a scroll directive in lower case
tScrollLower ==
    <<"s", "c", "r", "o", "l", "l">>

\* a click whose target text is the word SCROLL
tClickScroll ==
    <<"C", "L", "I", "C", "K", " ", "b", "u", "t", "t", "o", "n", " ", "'",
      "S", "C", "R", "O", "L", "L", "'">>

\* a text with both markers in mixed case behind an action keyword
tBothMarkers ==
    <<"c", "l", "i", "c", "k", " ", "t", "a", "s", "k", "_", "f", "a", "i",
      "l", "e", "d", " ", "t", "h", "e", "n", " ", "T", "a", "s", "k", "_",
      "C", "o", "m", "p", "l", "e", "t", "e">>

\* a click whose target text is the failure marker in mixed case
tClickFailed ==
    <<"C", "L", "I", "C", "K", " ", "b", "u", "t", "t", "o", "n", " ", "'",
      "T", "a", "s", "k", "_", "F", "a", "i", "l", "e", "d", "'">>

\* a navigation whose payload holds the failure marker in lower case
tNavFailed ==
    <<"N", "A", "V", "I", "G", "A", "T", "E", " ", "h", "t", "t", "p", "s",
      ":", "/", "/", "a", ".", "i", "o", "/", "t", "a", "s", "k", "_", "f",
      "a", "i", "l", "e", "d">>

\* a navigation to a URL no page answers at
tNavNowhere ==
    <<"N", "A", "V", "I", "G", "A", "T", "E", " ", "h", "t", "t", "p", "s",
      ":", "/", "/", "x", ".", "i", "o">>

\* a navigation without a payload
tNavOnly ==
    <<"N", "A", "V", "I", "G", "A", "T", "E">>

\* a navigation whose URL is written in upper case
tNavUpper ==
    <<"N", "A", "V", "I", "G", "A", "T", "E", " ", "H", "T", "T", "P", "S",
      ":", "/", "/", "A", ".", "I", "O">>

uHome ==
    <<"h", "t", "t", "p", "s", ":", "/", "/", "a", ".", "i", "o">>

uPricing ==
    <<"h", "t", "t", "p", "s", ":", "/", "/", "a", ".", "i", "o", "/", "p">>

\* a URL no page answers at
uNowhere ==
    <<"h", "t", "t", "p", "s", ":", "/", "/", "x", ".", "i", "o">>

xMenu ==
    <<"M", "e", "n", "u">>

xGoNow ==
    <<"G", "O", " ", "n", "o", "w">>

xPricing ==
    <<"P", "r", "i", "c", "i", "n", "g">>

\* str(e) of a raised fault
xFault ==
    <<"f", "a", "u", "l", "t">>

-----------------------------------------------------------------------------
(* The browser side: a small site the page handle shows.                   *)

None == "None"

\* A page of the site: its URL and its elements in document order.
Pages ==
    << [url |-> uHome,
        buttons |-> <<xMenu, xGoNow>>,
        links |-> <<[text |-> xPricing, to |-> 2]>>,
        inputs |-> <<[tag |-> kinput, type |-> kemail, name |-> kemail,
                      id |-> <<>>, placeholder |-> <<>>]>>],
       [url |-> uPricing,
        buttons |-> <<>>,
        links |-> <<>>,
        inputs |-> <<>>] >>

\* What a new page shows before any goto.
BlankPage == [url |-> <<>>, buttons |-> <<>>, links |-> <<>>, inputs |-> <<>>]

Dom(w) == IF w.dom = 0 THEN BlankPage ELSE Pages[w.dom]

\* The page a URL loads, 0 when goto(url) raises.
PageOf(u) ==
    IF \E i \in 1..Len(Pages) : Pages[i].url = u
    THEN CHOOSE i \in 1..Len(Pages) : Pages[i].url = u
    ELSE 0

\* One call on the page handle, an element or the keyboard.
Op(o, k, i, a) == [op |-> o, kind |-> k, idx |-> i, arg |-> a]

Min(a, b) == IF a <= b THEN a ELSE b

\* The least element of a nonempty set of numbers; 0 for the empty set.
First(S) == IF S = {} THEN 0 ELSE CHOOSE i \in S : \A j \in S : i <= j

\* The browser after the calls ops: a click on a link loads its target, a
\* scroll moves the viewport, goto loads the page of the URL.
RECURSIVE ApplyOps(_, _)
ApplyOps(w, ops) ==
    IF ops = <<>> THEN w
    ELSE LET o == Head(ops)
             w1 == IF o.op = "click" /\ o.kind = "a" /\ Dom(w).links[o.idx].to # 0
                   THEN [w EXCEPT !.dom = Dom(w).links[o.idx].to, !.scrollY = 0]
                   ELSE IF o.op = "scroll"
                   THEN [w EXCEPT !.scrollY = @ + o.idx]
                   ELSE IF o.op = "goto"
                   THEN [w EXCEPT !.dom = PageOf(o.arg), !.scrollY = 0]
                   ELSE w
         IN  ApplyOps(w1, Tail(ops))

\* Whether an input element matches a selector of execute_action.
MatchSel(kind, val, inp) ==
    CASE kind = "name" -> inp.tag = kinput /\ inp.name = val
      [] kind = "id" -> inp.tag = kinput /\ inp.id = val
      [] kind = "type" -> inp.tag = kinput /\ inp.type = val
      [] kind = "generic" -> \/ inp.tag = kinput /\ inp.type \in {ktext, kemail}
                             \/ inp.tag = ktextarea
      [] kind = "search" -> /\ inp.tag = kinput
                            /\ \/ inp.type = ksearch
                               \/ Contains(inp.name, ksearch)
                               \/ Contains(inp.placeholder, ksearch)
      [] OTHER -> FALSE

\* page.query_selector on the inputs: the first match in document order, 0 for None.
QueryInput(dom, kind, val) ==
    First({i \in 1..Len(dom.inputs) : MatchSel(kind, val, dom.inputs[i])})

-----------------------------------------------------------------------------
(* execute_action.  Each branch is written as a plan: the calls it makes   *)
(* on the page in order when none raises, the message it then returns,     *)
(* the prefix of the message of the except clause that guards it, and the  *)
(* URL it assigns to current_url (a sequence of zero or one URL).          *)

\* A message: its fixed text and the values formatted into it.
Msg(text, args) == [text |-> text, args |-> args]

Plan(ops, message, fail, nav) ==
    [ops |-> ops, message |-> message, fail |-> fail, nav |-> nav]

Wait(ms) == Op("wait", "", ms, <<>>)

\* The calls of one CLICK branch on the elements of one tag, whose texts are
\* texts, and its message: the scan up to the element m whose text contains the
\* quoted target (m = 0: none does, or nothing is quoted), then the fallback
\* to the first element.
ClickOps(quoted, target, m, tag, label, texts, ms) ==
    LET scan == IF ~quoted THEN <<>>
                ELSE <<Op("query_all", tag, 0, <<>>)>>
                     \o [i \in 1..(IF m > 0 THEN m ELSE Len(texts)) |->
                            Op("text_content", tag, i, <<>>)]
    IN  IF m > 0
        THEN Plan(scan \o <<Op("click", tag, m, <<>>), Wait(ms)>>,
                  Msg("Clicked " \o label \o ": ", <<target>>), "Click failed: ", <<>>)
        ELSE IF Len(texts) > 0
        THEN Plan(scan \o <<Op("query", tag, 0, <<>>), Op("click", tag, 1, <<>>), Wait(ms)>>,
                  Msg("Clicked first " \o label, <<>>), "Click failed: ", <<>>)
        ELSE Plan(scan \o <<Op("query", tag, 0, <<>>)>>,
                  Msg("No suitable element found to click", <<>>), "Click failed: ", <<>>)

\* A scan that compares the texts with the target letter case included.
ClickMatchExact(quoted, target, texts) ==
    IF quoted
    THEN First({i \in 1..Len(texts) : Contains(texts[i], target)})
    ELSE 0

\* The first element whose text contains the target, case-insensitively.
ClickMatch(quoted, target, texts) ==
    IF quoted
    THEN First({i \in 1..Len(texts) : Contains(Lower(texts[i]), Lower(target))})
    ELSE 0

ClickScan(quoted, target, tag, label, texts, ms) ==
    ClickOps(quoted, target, ClickMatch(quoted, target, texts), tag, label, texts, ms)

\* The text between the first pair of single quotes of a CLICK action.
ClickTarget(action) ==
    IF Contains(action, kQuote) THEN SplitSecond(action, kQuote) ELSE <<>>

ClickPlan(action, tag, label, texts, ms) ==
    ClickScan(Contains(action, kQuote), ClickTarget(action), tag, label, texts, ms)

\* A CLICK branch that explores the page when the directive names neither a
\* button nor a link.
ClickBranchExplores(action, dom) ==
    IF Contains(Lower(action), kbutton)
    THEN ClickPlan(action, "button", "button", dom.buttons, 2000)
    ELSE IF Contains(Lower(action), klink)
    THEN ClickPlan(action, "a", "link",
                   [i \in 1..Len(dom.links) |-> dom.links[i].text], 3000)
    ELSE Plan(<<Op("scroll", "", 400, <<>>), Wait(1500)>>,
              Msg("Exploring page: ", <<action>>), "Click failed: ", <<>>)

ClickBranch(action, dom) ==
    IF Contains(Lower(action), kbutton)
    THEN ClickPlan(action, "button", "button", dom.buttons, 2000)
    ELSE IF Contains(Lower(action), klink)
    THEN ClickPlan(action, "a", "link",
                   [i \in 1..Len(dom.links) |-> dom.links[i].text], 3000)
    ELSE Plan(<<>>, Msg("No suitable element found to click", <<>>), "Click failed: ", <<>>)

\* The selectors FILL tries in order, the empty ones left out.
FillSelectors(field_name) ==
    << [kind |-> "name", val |-> field_name],
       [kind |-> "id", val |-> field_name],
       [kind |-> "type", val |-> field_name] >>
    \o (IF field_name = kemail THEN <<[kind |-> "type", val |-> kemail]>> ELSE <<>>)
    \o (IF field_name \in {ktext, kname} THEN <<[kind |-> "type", val |-> ktext]>> ELSE <<>>)

\* FILL writing into the first input without looking for one.
FillOpsBlind(field_name, value, sels, k, g, dom) ==
    Plan(<<Op("fill", "input", 1, value), Wait(1000)>>,
         Msg("Filled field with ", <<value>>), "Fill failed: ", <<>>)

\* The calls of FILL and its message: k is the first selector that finds an
\* element (0: none does), g the element the fallback selector finds (0: none).
FillOps(field_name, value, sels, k, g, dom) ==
    LET tried == [i \in 1..(IF k > 0 THEN k ELSE Len(sels)) |->
                     Op("query", sels[i].kind, 0, sels[i].val)]
    IN  IF k > 0
        THEN Plan(tried \o <<Op("fill", "input",
                                QueryInput(dom, sels[k].kind, sels[k].val), value),
                             Wait(1000)>>,
                  Msg("Filled {} with {}", <<field_name, value>>), "Fill failed: ", <<>>)
        ELSE IF g > 0
        THEN Plan(tried \o <<Op("query", "generic", 0, <<>>),
                             Op("fill", "input", g, value), Wait(1000)>>,
                  Msg("Filled field with ", <<value>>), "Fill failed: ", <<>>)
        ELSE Plan(tried \o <<Op("query", "generic", 0, <<>>)>>,
                  Msg("Could not parse fill command", <<>>), "Fill failed: ", <<>>)

FillTry(field_name, value, sels, dom) ==
    FillOps(field_name, value, sels,
            First({i \in 1..Len(sels) : QueryInput(dom, sels[i].kind, sels[i].val) > 0}),
            QueryInput(dom, "generic", <<>>), dom)

\* FILL taking the third token alone as the value.
FillPartsThird(parts, dom) ==
    IF Len(parts) >= 3
    THEN FillTry(parts[2], parts[3], FillSelectors(parts[2]), dom)
    ELSE Plan(<<>>, Msg("Could not parse fill command", <<>>), "Fill failed: ", <<>>)

FillParts(parts, dom) ==
    IF Len(parts) >= 3
    THEN FillTry(parts[2], JoinSpace(SubSeq(parts, 3, Len(parts))),
                 FillSelectors(parts[2]), dom)
    ELSE Plan(<<>>, Msg("Could not parse fill command", <<>>), "Fill failed: ", <<>>)

FillBranch(action, dom) == FillParts(SplitWords(action), dom)

ScrollBranch ==
    Plan(<<Op("scroll", "", 500, <<>>), Wait(2000)>>,
         Msg("Scrolled down to explore more content", <<>>),
         "Action execution failed: ", <<>>)

\* The destination NAVIGATE hands to goto, from the text after the first http.
NavigateUrl(u) == IF StartsWith(u, kSchemeSep) THEN u ELSE khttp \o u

NavigateTo(u) ==
    Plan(<<Op("goto", "", 30000, u), Wait(3000)>>,
         Msg("Navigated to ", <<u>>), "Navigation failed: ", <<u>>)

NavigateBranch(action) ==
    IF Contains(action, khttp)
    THEN NavigateTo(NavigateUrl(SplitSecond(action, khttp)))
    ELSE Plan(<<>>, Msg("Invalid navigation URL", <<>>), "Navigation failed: ", <<>>)

\* The calls of SEARCH and its message: s is the search input found (0: none).
SearchOps(search_text, s) ==
    IF s > 0
    THEN Plan(<<Op("query", "search", 0, <<>>), Op("fill", "input", s, search_text),
                Op("press", "Enter", 0, <<>>), Wait(3000)>>,
              Msg("Searched for: ", <<search_text>>), "Search failed: ", <<>>)
    ELSE Plan(<<Op("query", "search", 0, <<>>), Op("scroll", "", 300, <<>>), Wait(1000)>>,
              Msg("Looking for: ", <<search_text>>), "Search failed: ", <<>>)

SearchBranch(action, dom) ==
    SearchOps(Strip(DropFirst(action, 6)), QueryInput(dom, "search", <<>>))

\* An UNKNOWN branch that stops exploring one step earlier.
UnknownBranchEarlier(action, step_count) ==
    IF step_count < 3
    THEN Plan(<<Op("scroll", "", 400, <<>>), Wait(1500)>>,
              Msg("Exploring page: ", <<action>>), "Action execution failed: ", <<>>)
    ELSE Plan(<<Wait(1000)>>,
              Msg("Executed: ", <<action>>), "Action execution failed: ", <<>>)

UnknownBranch(action, step_count) ==
    IF step_count <= 3
    THEN Plan(<<Op("scroll", "", 400, <<>>), Wait(1500)>>,
              Msg("Exploring page: ", <<action>>), "Action execution failed: ", <<>>)
    ELSE Plan(<<Wait(1000)>>,
              Msg("Executed: ", <<action>>), "Action execution failed: ", <<>>)

\* A classification that looks for TASK_FAILED before TASK_COMPLETE.
ActionKindFailedFirst(action) ==
    LET action_upper == Upper(action)
    IN  IF Contains(action_upper, kTASK_FAILED) THEN "FAILED"
        ELSE IF Contains(action_upper, kTASK_COMPLETE) THEN "COMPLETE"
        ELSE IF StartsWith(action_upper, kCLICK) THEN "CLICK"
        ELSE IF StartsWith(action_upper, kFILL) THEN "FILL"
        ELSE IF StartsWith(action_upper, kSCROLL) THEN "SCROLL"
        ELSE IF StartsWith(action_upper, kNAVIGATE) THEN "NAVIGATE"
        ELSE IF StartsWith(action_upper, kSEARCH) THEN "SEARCH"
        ELSE "UNKNOWN"

\* The kind of directive execute_action takes an action text for.
ActionKind(action) ==
    LET action_upper == Upper(action)
    IN  IF Contains(action_upper, kTASK_COMPLETE) THEN "COMPLETE"
        ELSE IF Contains(action_upper, kTASK_FAILED) THEN "FAILED"
        ELSE IF StartsWith(action_upper, kCLICK) THEN "CLICK"
        ELSE IF StartsWith(action_upper, kFILL) THEN "FILL"
        ELSE IF StartsWith(action_upper, kSCROLL) THEN "SCROLL"
        ELSE IF StartsWith(action_upper, kNAVIGATE) THEN "NAVIGATE"
        ELSE IF StartsWith(action_upper, kSEARCH) THEN "SEARCH"
        ELSE "UNKNOWN"

\* The plan of the branch execute_action takes for a non-terminal action.
ActionPlan(kind, action, a, w) ==
    CASE kind = "CLICK" -> ClickBranch(action, Dom(w))
      [] kind = "FILL" -> FillBranch(action, Dom(w))
      [] kind = "SCROLL" -> ScrollBranch
      [] kind = "NAVIGATE" -> NavigateBranch(action)
      [] kind = "SEARCH" -> SearchBranch(action, Dom(w))
      [] kind = "UNKNOWN" -> UnknownBranch(action, a.step_count)
      [] OTHER -> Plan(<<>>, Msg("", <<>>), "", <<>>)

\* The first call of the plan that raises by itself: a goto of a URL no page
\* answers at. 0 when there is none.
OwnFault(ops) ==
    First({i \in 1..Len(ops) : ops[i].op = "goto" /\ PageOf(ops[i].arg) = 0})

\* The call that raises, when the f-th call is made to raise (0: none is) and
\* the own-th raises by itself (0: none does).
Raising(f, own) == IF f = 0 THEN own ELSE IF own = 0 THEN f ELSE Min(f, own)

\* execute_action without its except clauses: a fault of a call leaves it.
ExecutedUncaught(kind, plan, a, w, e) ==
    IF kind = "COMPLETE"
    THEN [status |-> "COMPLETE", message |-> Msg("Task completed successfully", <<>>),
          ops |-> <<>>, raised |-> FALSE, agent |-> a, web |-> w]
    ELSE IF kind = "FAILED"
    THEN [status |-> "FAILED", message |-> Msg("Task failed - could not complete", <<>>),
          ops |-> <<>>, raised |-> FALSE, agent |-> a, web |-> w]
    ELSE IF e > 0
    THEN [status |-> "RAISED", message |-> Msg("", <<xFault>>),
          ops |-> SubSeq(plan.ops, 1, e - 1), raised |-> TRUE, agent |-> a,
          web |-> ApplyOps(w, SubSeq(plan.ops, 1, e - 1))]
    ELSE [status |-> "CONTINUE", message |-> plan.message,
          ops |-> plan.ops, raised |-> FALSE,
          agent |-> IF plan.nav = <<>> THEN a
                    ELSE [a EXCEPT !.current_url = plan.nav[1]],
          web |-> ApplyOps(w, plan.ops)]

\* execute_action assigning current_url before the navigation is attempted.
ExecutedEagerUrl(kind, plan, a, w, e) ==
    IF kind = "COMPLETE"
    THEN [status |-> "COMPLETE", message |-> Msg("Task completed successfully", <<>>),
          ops |-> <<>>, raised |-> FALSE, agent |-> a, web |-> w]
    ELSE IF kind = "FAILED"
    THEN [status |-> "FAILED", message |-> Msg("Task failed - could not complete", <<>>),
          ops |-> <<>>, raised |-> FALSE, agent |-> a, web |-> w]
    ELSE IF e > 0
    THEN [status |-> "ERROR", message |-> Msg(plan.fail, <<xFault>>),
          ops |-> SubSeq(plan.ops, 1, e - 1), raised |-> TRUE,
          agent |-> IF plan.nav = <<>> THEN a
                    ELSE [a EXCEPT !.current_url = plan.nav[1]],
          web |-> ApplyOps(w, SubSeq(plan.ops, 1, e - 1))]
    ELSE [status |-> "CONTINUE", message |-> plan.message,
          ops |-> plan.ops, raised |-> FALSE,
          agent |-> IF plan.nav = <<>> THEN a
                    ELSE [a EXCEPT !.current_url = plan.nav[1]],
          web |-> ApplyOps(w, plan.ops)]

\* execute_action keeping current_url in step with the page the browser shows.
ExecutedFollowsPage(kind, plan, a, w, e) ==
    IF kind = "COMPLETE"
    THEN [status |-> "COMPLETE", message |-> Msg("Task completed successfully", <<>>),
          ops |-> <<>>, raised |-> FALSE, agent |-> a, web |-> w]
    ELSE IF kind = "FAILED"
    THEN [status |-> "FAILED", message |-> Msg("Task failed - could not complete", <<>>),
          ops |-> <<>>, raised |-> FALSE, agent |-> a, web |-> w]
    ELSE IF e > 0
    THEN [status |-> "ERROR", message |-> Msg(plan.fail, <<xFault>>),
          ops |-> SubSeq(plan.ops, 1, e - 1), raised |-> TRUE,
          agent |-> [a EXCEPT !.current_url =
                         Dom(ApplyOps(w, SubSeq(plan.ops, 1, e - 1))).url],
          web |-> ApplyOps(w, SubSeq(plan.ops, 1, e - 1))]
    ELSE [status |-> "CONTINUE", message |-> plan.message,
          ops |-> plan.ops, raised |-> FALSE,
          agent |-> [a EXCEPT !.current_url = Dom(ApplyOps(w, plan.ops)).url],
          web |-> ApplyOps(w, plan.ops)]

\* What execute_action returns and leaves, when the e-th call of its plan
\* raises (0: none): the calls before it were made, the except clause of the
\* branch turns the fault into ERROR.
Executed(kind, plan, a, w, e) ==
    IF kind = "COMPLETE"
    THEN [status |-> "COMPLETE", message |-> Msg("Task completed successfully", <<>>),
          ops |-> <<>>, raised |-> FALSE, agent |-> a, web |-> w]
    ELSE IF kind = "FAILED"
    THEN [status |-> "FAILED", message |-> Msg("Task failed - could not complete", <<>>),
          ops |-> <<>>, raised |-> FALSE, agent |-> a, web |-> w]
    ELSE IF e > 0
    THEN [status |-> "ERROR", message |-> Msg(plan.fail, <<xFault>>),
          ops |-> SubSeq(plan.ops, 1, e - 1), raised |-> TRUE, agent |-> a,
          web |-> ApplyOps(w, SubSeq(plan.ops, 1, e - 1))]
    ELSE [status |-> "CONTINUE", message |-> plan.message,
          ops |-> plan.ops, raised |-> FALSE,
          agent |-> IF plan.nav = <<>> THEN a
                    ELSE [a EXCEPT !.current_url = plan.nav[1]],
          web |-> ApplyOps(w, plan.ops)]

ExecutePlan(kind, plan, a, w, f) ==
    Executed(kind, plan, a, w, Raising(f, OwnFault(plan.ops)))

ExecuteKind(kind, action, a, w, f) ==
    ExecutePlan(kind, ActionPlan(kind, action, a, w), a, w, f)

\* execute_action(action) of agent a on browser w, when the f-th call it makes
\* on the page raises (f = 0: no call is made to raise).
execute_action(action, a, w, f) == ExecuteKind(ActionKind(action), action, a, w, f)

PlanCalls(kind, action, a, w) ==
    IF kind \in {"COMPLETE", "FAILED"} THEN 0 ELSE Len(ActionPlan(kind, action, a, w).ops)

\* How many calls on the page execute_action(action) makes when none raises.
ActionCalls(action, a, w) == PlanCalls(ActionKind(action), action, a, w)

-----------------------------------------------------------------------------
(* MockMultiOnClient.                                                      *)

\* None, where the program holds a text or None
NoText == <<"None">>

\* __init__
NewAgent ==
    [playwright |-> None, browser |-> None, page |-> None, session_id |-> None,
     current_url |-> NoText, screenshot |-> <<>>, step_count |-> 0]

\* No browser process yet.
NewWeb == [pw |-> 0, browser |-> 0, dom |-> 0, scrollY |-> 0, closes |-> 0, stops |-> 0]

\* take_screenshot: the encoded image of what the page shows, "" without a page.
take_screenshot(a, w) == IF a.page # None THEN <<w.dom, w.scrollY>> ELSE <<>>

\* The step_count from which determine_action overrides the model.
ForceStep == 8

\* Line 173: the URL determine_action writes into the prompt.
PromptUrl(a) == a.current_url

\* determine_action overriding one step late.
determine_action_late(a, ok, content) ==
    IF ~ok THEN kTASK_FAILED
    ELSE IF /\ a.step_count > ForceStep
            /\ ~Contains(Strip(content), kTASK_COMPLETE)
            /\ ~Contains(Strip(content), kTASK_FAILED)
         THEN kTASK_COMPLETE
         ELSE Strip(content)

\* determine_action whose except clause returns an empty action.
determine_action_swallow(a, ok, content) ==
    IF ~ok THEN tEmpty
    ELSE IF /\ a.step_count >= ForceStep
            /\ ~Contains(Strip(content), kTASK_COMPLETE)
            /\ ~Contains(Strip(content), kTASK_FAILED)
         THEN kTASK_COMPLETE
         ELSE Strip(content)

\* determine_action from the model call on: ok says whether the call and the
\* read of its content succeeded, content is the text of the completion.
determine_action(a, ok, content) ==
    IF ~ok THEN kTASK_FAILED
    ELSE LET action == Strip(content)
         IN  IF /\ a.step_count >= ForceStep
                /\ ~Contains(action, kTASK_COMPLETE)
                /\ ~Contains(action, kTASK_FAILED)
             THEN kTASK_COMPLETE
             ELSE action

\* The calls execute_task makes on the page before the model is asked:
\* take_screenshot, page.content(), and the two page.evaluate of determine_action.
PreCalls == {"screenshot", "content", "visible_text", "interactive_elements"}

\* What one execute_task call did. raised: it raised error instead of returning;
\* asked: the model was called, with step_count at count, and answered content
\* (model_ok) or failed. The fields from step to message are the dict returned.
TaskOutcome(raised, error, a, w, asked, ok, content, count, action, r, shot) ==
    [raised |-> raised, error |-> error, agent |-> a, web |-> w,
     asked |-> asked, model_ok |-> ok, content |-> content, count |-> count,
     action |-> action,
     exec_status |-> r.status, exec_raised |-> r.raised, ops |-> r.ops,
     step |-> a.step_count, url |-> a.current_url, screenshot |-> shot,
     status |-> r.status, message |-> r.message]

\* The outcome fields of an execute_action that did not run.
NotExecuted ==
    [status |-> "", message |-> Msg("", <<>>), ops |-> <<>>, raised |-> FALSE]

\* execute_task incrementing step_count only after the screenshot of the
\* returned dict was taken.
TaskDoneCountsLate(action, r, ok, content, count, post) ==
    IF post
    THEN TaskOutcome(TRUE, "screenshot", r.agent, r.web,
                     TRUE, ok, content, count, action, r, <<>>)
    ELSE TaskOutcome(FALSE, "", [r.agent EXCEPT !.step_count = @ + 1], r.web,
                     TRUE, ok, content, count, action, r,
                     take_screenshot([r.agent EXCEPT !.step_count = @ + 1], r.web))

\* execute_task from the return of execute_action on: step_count is
\* incremented, then the screenshot of the returned dict is taken.
TaskDone(action, r, ok, content, count, post) ==
    IF post
    THEN TaskOutcome(TRUE, "screenshot", [r.agent EXCEPT !.step_count = @ + 1], r.web,
                     TRUE, ok, content, count, action, r, <<>>)
    ELSE TaskOutcome(FALSE, "", [r.agent EXCEPT !.step_count = @ + 1], r.web,
                     TRUE, ok, content, count, action, r,
                     take_screenshot([r.agent EXCEPT !.step_count = @ + 1], r.web))

\* execute_task from the return of determine_action on.
TaskAct(action, a, w, ok, content, f, post) ==
    TaskDone(action, execute_action(action, a, w, f), ok, content, a.step_count, post)

\* execute_task counting the call it refuses for want of a page.
execute_task_counting(a, w, pre, ok, content, f, post) ==
    IF a.page = None
    THEN TaskOutcome(TRUE, "ValueError", [a EXCEPT !.step_count = @ + 1], w,
                     FALSE, FALSE, NoText, a.step_count, NoText, NotExecuted, <<>>)
    ELSE IF pre # "none"
    THEN TaskOutcome(TRUE, pre, a, w, FALSE, FALSE, NoText, a.step_count,
                     NoText, NotExecuted, <<>>)
    ELSE TaskAct(determine_action(a, ok, content), a, w, ok, content, f, post)

\* execute_task of agent a on browser w.  pre: the call before the model call
\* that raises ("none": none does); ok, content: the model call; f: the call
\* of execute_action that raises; post: the screenshot of the returned dict raises.
execute_task(a, w, pre, ok, content, f, post) ==
    IF a.page = None
    THEN TaskOutcome(TRUE, "ValueError", a, w, FALSE, FALSE, NoText, a.step_count,
                     NoText, NotExecuted, <<>>)
    ELSE IF pre # "none"
    THEN TaskOutcome(TRUE, pre, a, w, FALSE, FALSE, NoText, a.step_count,
                     NoText, NotExecuted, <<>>)
    ELSE TaskAct(determine_action(a, ok, content), a, w, ok, content, f, post)

\* The steps of create_session, init_browser included, in order.
SessionCalls == <<"start", "launch", "new_page", "goto", "wait", "screenshot">>

\* create_session(u) of agent a when the call named fault raises ("none": none).
\* Returns the agent and browser it leaves and, unless it raised, the session dict.
create_session(a, w, u, fault) ==
    LET init == a.page = None
        \* init_browser, as far as it gets
        a1 == IF ~init \/ fault = "start" THEN a
              ELSE IF fault = "launch" THEN [a EXCEPT !.playwright = "playwright"]
              ELSE IF fault = "new_page"
              THEN [a EXCEPT !.playwright = "playwright", !.browser = "browser"]
              ELSE [a EXCEPT !.playwright = "playwright", !.browser = "browser",
                             !.page = "page"]
        w1 == IF ~init \/ fault = "start" THEN w
              ELSE IF fault = "launch" THEN [w EXCEPT !.pw = @ + 1]
              ELSE [w EXCEPT !.pw = @ + 1, !.browser = @ + 1, !.dom = 0, !.scrollY = 0]
        inited == ~init \/ fault \notin {"start", "launch", "new_page"}
        loaded == inited /\ fault # "goto" /\ PageOf(u) # 0
        w2 == IF loaded THEN [w1 EXCEPT !.dom = PageOf(u), !.scrollY = 0] ELSE w1
        named == loaded /\ fault # "wait"
        a2 == IF named
              THEN [a1 EXCEPT !.session_id = "session", !.current_url = u]
              ELSE a1
        shot == named /\ fault # "screenshot"
        a3 == IF shot THEN [a2 EXCEPT !.screenshot = take_screenshot(a2, w2)] ELSE a2
    IN  [raised |-> ~shot, agent |-> a3, web |-> w2,
         session |-> [session_id |-> a3.session_id, url |-> a3.current_url,
                      screenshot |-> a3.screenshot, status |-> "CONTINUE"]]

\* close_session that does not reset the page attribute.
close_session_keeps_page(a, w) ==
    LET w1 == IF a.browser # None
              THEN [w EXCEPT !.browser = @ - 1, !.closes = @ + 1, !.dom = 0, !.scrollY = 0]
              ELSE w
        w2 == IF a.playwright # None
              THEN [w1 EXCEPT !.pw = @ - 1, !.stops = @ + 1]
              ELSE w1
    IN  [agent |-> [a EXCEPT !.playwright = None, !.browser = None], web |-> w2]

\* close_session
close_session(a, w) ==
    LET w1 == IF a.browser # None
              THEN [w EXCEPT !.browser = @ - 1, !.closes = @ + 1, !.dom = 0, !.scrollY = 0]
              ELSE w
        w2 == IF a.playwright # None
              THEN [w1 EXCEPT !.pw = @ - 1, !.stops = @ + 1]
              ELSE w1
    IN  [agent |-> [a EXCEPT !.playwright = None, !.browser = None, !.page = None],
         web |-> w2]

-----------------------------------------------------------------------------
(* autonomous_process.                                                     *)

\* No second run.
NoPeer == [pc |-> "none"]

\* The completions the model gives in a driven session.
Responses == {tClickGo, tClickPricing, tScrollPadded, tEmpty, kTASK_COMPLETE}

\* The start URLs of a driven session.
StartUrls == {uHome, uNowhere}

Terminal == {"COMPLETE", "FAILED", "ERROR"}

\* One record of the trace.
ActionStep(n, action, st, shot, message) ==
    [step_number |-> n, action |-> action, status |-> st, screenshot |-> shot,
     message |-> message]

NoResult == [returned |-> FALSE]

\* No execute_task call yet.
NoCall ==
    TaskOutcome(FALSE, "", NewAgent, NewWeb, FALSE, FALSE, NoText, 0, NoText,
                NotExecuted, <<>>)

\* The repetition check with the thresholds nonscroll and scroll.
RepetitionAt(res, last, repeated, nonscroll, scroll) ==
    IF res.action = last
    THEN IF repeated + 1 >= nonscroll /\ ~Contains(res.action, kSCROLL)
         THEN [repeated |-> repeated + 1, last |-> last, forced |-> TRUE,
               status |-> "COMPLETE",
               message |-> [text |-> "Stopping due to repeated actions", args |-> <<>>]]
         ELSE IF repeated + 1 >= scroll /\ Contains(res.action, kSCROLL)
         THEN [repeated |-> repeated + 1, last |-> last, forced |-> TRUE,
               status |-> "COMPLETE",
               message |-> [text |-> "Finished exploring page content", args |-> <<>>]]
         ELSE [repeated |-> repeated + 1, last |-> last, forced |-> FALSE,
               status |-> res.status, message |-> res.message]
    ELSE [repeated |-> 0, last |-> res.action, forced |-> FALSE,
          status |-> res.status, message |-> res.message]

\* The repetition check stopping other actions one repeat later.
RepetitionLater(res, last, repeated) == RepetitionAt(res, last, repeated, 4, 4)

\* The repetition check stopping scrolls one repeat later.
RepetitionScrollLater(res, last, repeated) == RepetitionAt(res, last, repeated, 3, 5)

\* The repetition check stopping at the first repeat.
RepetitionFirst(res, last, repeated) == RepetitionAt(res, last, repeated, 1, 1)

\* The repetition check stopping with FAILED.
RepetitionStopsFailed(res, last, repeated) ==
    IF RepetitionAt(res, last, repeated, 3, 4).forced
    THEN [RepetitionAt(res, last, repeated, 3, 4) EXCEPT !.status = "FAILED"]
    ELSE RepetitionAt(res, last, repeated, 3, 4)

\* The repetition check on a returned result: the new repeat counter, the new
\* remembered action, and the status and message after the override.
Repetition(res, last, repeated) ==
    IF res.action = last
    THEN LET n == repeated + 1
         IN  IF n >= 3 /\ ~Contains(res.action, kSCROLL)
             THEN [repeated |-> n, last |-> last, forced |-> TRUE, status |-> "COMPLETE",
                   message |-> Msg("Stopping due to repeated actions", <<>>)]
             ELSE IF n >= 4 /\ Contains(res.action, kSCROLL)
             THEN [repeated |-> n, last |-> last, forced |-> TRUE, status |-> "COMPLETE",
                   message |-> Msg("Finished exploring page content", <<>>)]
             ELSE [repeated |-> n, last |-> last, forced |-> FALSE,
                   status |-> res.status, message |-> res.message]
    ELSE [repeated |-> 0, last |-> res.action, forced |-> FALSE,
          status |-> res.status, message |-> res.message]

\* The record the driver's except clause appends for a fault it caught.
FaultStep(n) == ActionStep(n, kERROR, "ERROR", <<>>, Msg("Error: ", <<xFault>>))

\* What hist keeps of one iteration.
Seen(o, forced) ==
    [raised |-> o.raised, asked |-> o.asked, model_ok |-> o.model_ok,
     action |-> o.action, exec_status |-> o.exec_status, exec_raised |-> o.exec_raised,
     count |-> o.count, forced |-> forced]

Init ==
    /\ agent = NewAgent
    /\ web = NewWeb
    /\ pc = "start"
    /\ url \in StartUrls
    /\ max_steps \in -1..MaxSteps
    /\ steps = <<>>
    /\ step = 1
    /\ status = "CONTINUE"
    /\ last_action = <<>>
    /\ repeated_actions = 0
    /\ result = NoResult
    /\ closeCalls = 0
    /\ call = NoCall
    /\ hist = <<>>
    /\ peer = NoPeer

\* The loop condition letting one more iteration in.
LoopConditionOneMore == status = "CONTINUE" /\ step <= max_steps + 1

\* Line 571: the condition of the while loop.
LoopCondition == status = "CONTINUE" /\ step <= max_steps

\* Lines 552-569 after create_session: a fault goes to the outer except, which
\* returns; otherwise the initial record is appended.
Started(r) ==
    /\ agent' = r.agent
    /\ web' = r.web
    /\ IF r.raised
       THEN /\ pc' = "finally"
            /\ result' = [returned |-> TRUE, success |-> FALSE]
            /\ steps' = steps
       ELSE /\ pc' = "loop"
            /\ result' = result
            /\ steps' = <<ActionStep(0, kStarted \o url, "CONTINUE",
                                     r.session.screenshot,
                                     Msg("Session initialized", <<>>))>>

\* Lines 548-569: the agent is made, the session created.
Start ==
    /\ pc = "start"
    /\ \E fault \in {"none"} \cup {SessionCalls[i] : i \in 1..Len(SessionCalls)} :
         \E r \in {create_session(agent, web, url, fault)} : Started(r)
    /\ UNCHANGED <<url, max_steps, step, status, last_action, repeated_actions,
                   closeCalls, call, hist, peer>>

\* An except clause that appends no record.
CaughtNoRecord(o) ==
    /\ steps' = steps
    /\ status' = "ERROR"
    /\ pc' = "return"
    /\ hist' = Append(hist, Seen(o, FALSE))
    /\ UNCHANGED <<step, last_action, repeated_actions>>

\* An except clause that does not set the status.
CaughtNoStatus(o) ==
    /\ steps' = Append(steps, FaultStep(step))
    /\ status' = status
    /\ pc' = "return"
    /\ hist' = Append(hist, Seen(o, FALSE))
    /\ UNCHANGED <<step, last_action, repeated_actions>>

\* An except clause that numbers its record one past the current step.
CaughtNumbersNext(o) ==
    /\ steps' = Append(steps, FaultStep(step + 1))
    /\ status' = "ERROR"
    /\ pc' = "return"
    /\ hist' = Append(hist, Seen(o, FALSE))
    /\ UNCHANGED <<step, last_action, repeated_actions>>

\* Lines 608-617: execute_task raised.
Caught(o) ==
    /\ steps' = Append(steps, FaultStep(step))
    /\ status' = "ERROR"
    /\ pc' = "return"
    /\ hist' = Append(hist, Seen(o, FALSE))
    /\ UNCHANGED <<step, last_action, repeated_actions>>

\* A loop body that appends the record and goes on without assigning status.
RecordedKeepsStatus(o, rep) ==
    /\ repeated_actions' = rep.repeated
    /\ last_action' = rep.last
    /\ steps' = Append(steps, ActionStep(step, o.action, rep.status, o.screenshot,
                                         rep.message))
    /\ status' = status
    /\ step' = step + 1
    /\ pc' = "loop"
    /\ hist' = Append(hist, Seen(o, rep.forced))

\* Lines 576-606: execute_task returned o, the repetition check gave rep.
Recorded(o, rep) ==
    /\ repeated_actions' = rep.repeated
    /\ last_action' = rep.last
    /\ steps' = Append(steps, ActionStep(step, o.action, rep.status, o.screenshot,
                                         rep.message))
    /\ status' = rep.status
    /\ step' = step + 1
    /\ pc' = IF rep.status \in Terminal THEN "return" ELSE "loop"
    /\ hist' = Append(hist, Seen(o, rep.forced))

\* A loop body that compares with the previous directive before executing and
\* leaves the page alone when the comparison forces the stop.
BodyCompareFirst(o) ==
    /\ agent' = o.agent
    /\ IF ~o.raised /\ Repetition(o, last_action, repeated_actions).forced
       THEN web' = web /\ call' = [o EXCEPT !.ops = <<>>, !.web = web]
       ELSE web' = o.web /\ call' = o
    /\ IF o.raised
       THEN Caught(o)
       ELSE \E rep \in {Repetition(o, last_action, repeated_actions)} :
              Recorded(o, rep)

\* Lines 572-617: the body of the loop, from the outcome o of execute_task on.
Body(o) ==
    /\ agent' = o.agent
    /\ web' = o.web
    /\ call' = o
    /\ IF o.raised
       THEN Caught(o)
       ELSE \E rep \in {Repetition(o, last_action, repeated_actions)} :
              Recorded(o, rep)

\* Lines 571-617: one iteration of the while loop, the model answering with
\* one of the completions in answers.
IterateOn(answers) ==
    /\ pc = "loop"
    /\ LoopCondition
    /\ \* a call before the model call raises: nothing else is called
       \/ \E pre \in PreCalls :
            \E o \in {execute_task(agent, web, pre, TRUE, tEmpty, 0, FALSE)} :
              Body(o)
       \* the model is called: it fails (and has no content) or answers
       \/ \E ok \in BOOLEAN, post \in BOOLEAN :
            \E content \in IF ok THEN answers ELSE {tEmpty} :
              \E f \in 0..ActionCalls(determine_action(agent, ok, content),
                                      agent, web) :
                \E o \in {execute_task(agent, web, "none", ok, content, f, post)} :
                  Body(o)
    /\ UNCHANGED <<url, max_steps, result, closeCalls, peer>>

Iterate == IterateOn(Responses)

\* A return that counts the initial record among the steps.
ReturnCountsInitial ==
    /\ \/ pc = "return"
       \/ pc = "loop" /\ ~LoopCondition
    /\ result' = [returned |-> TRUE, success |-> TRUE, steps |-> steps,
                  final_status |-> status, total_steps |-> Len(steps)]
    /\ pc' = "finally"
    /\ UNCHANGED <<agent, web, url, max_steps, steps, step, status, last_action,
                   repeated_actions, closeCalls, call, hist, peer>>

\* A return that reports an exhausted step budget as COMPLETE.
ReturnConverted ==
    /\ \/ pc = "return"
       \/ pc = "loop" /\ ~LoopCondition
    /\ result' = [returned |-> TRUE, success |-> TRUE, steps |-> steps,
                  final_status |-> IF status = "CONTINUE" THEN "COMPLETE" ELSE status,
                  total_steps |-> Len(steps) - 1]
    /\ pc' = "finally"
    /\ UNCHANGED <<agent, web, url, max_steps, steps, step, status, last_action,
                   repeated_actions, closeCalls, call, hist, peer>>

\* Lines 619-627: the loop is left (by break or by its condition) and the
\* result is built.
Return ==
    /\ \/ pc = "return"
       \/ pc = "loop" /\ ~LoopCondition
    /\ result' = [returned |-> TRUE, success |-> TRUE, steps |-> steps,
                  final_status |-> status, total_steps |-> Len(steps) - 1]
    /\ pc' = "finally"
    /\ UNCHANGED <<agent, web, url, max_steps, steps, step, status, last_action,
                   repeated_actions, closeCalls, call, hist, peer>>

\* Lines 631-632: the finally clause.
Finally ==
    /\ pc = "finally"
    /\ \E r \in {close_session(agent, web)} :
         agent' = r.agent /\ web' = r.web
    /\ closeCalls' = closeCalls + 1
    /\ pc' = "done"
    /\ UNCHANGED <<url, max_steps, steps, step, status, last_action,
                   repeated_actions, result, call, hist, peer>>

Next == Start \/ Iterate \/ Return \/ Finally

Spec == Init /\ [][Next]_vars

\* The event loop runs the coroutine on: every await of it returns or raises.
FairSpec == Spec /\ WF_vars(Next)

-----------------------------------------------------------------------------
(* autonomous_process with a model that words its directives in other ways: *)
(* a scroll in lower case, a click on something named SCROLL.               *)

RepeatResponses == {tScrollLower, tClickScroll, tScrollPadded, tClickGo}

RepeatIterate == IterateOn(RepeatResponses)

RepeatNext == Start \/ RepeatIterate \/ Return \/ Finally

RepeatSpec == Init /\ [][RepeatNext]_vars

-----------------------------------------------------------------------------
(* autonomous_process called with a max_steps beyond the step count at      *)
(* which determine_action overrides the model, and a model that keeps       *)
(* varying its directives so that the repetition check does not stop it.    *)

LongResponses == {tClickGo, tScrollPadded, tLowerFailed}

LongInit ==
    /\ agent = NewAgent
    /\ web = NewWeb
    /\ pc = "start"
    /\ url = uHome
    /\ max_steps \in (ForceStep + 1)..LongSteps
    /\ steps = <<>>
    /\ step = 1
    /\ status = "CONTINUE"
    /\ last_action = <<>>
    /\ repeated_actions = 0
    /\ result = NoResult
    /\ closeCalls = 0
    /\ call = NoCall
    /\ hist = <<>>
    /\ peer = NoPeer

LongIterate == IterateOn(LongResponses)

LongNext == Start \/ LongIterate \/ Return \/ Finally

LongSpec == LongInit /\ [][LongNext]_vars

-----------------------------------------------------------------------------
(* autonomous_process cancelled by its caller.  The coroutine is suspended  *)
(* between two iterations in asyncio.sleep (line 606); cancelling it raises *)
(* CancelledError there.  CancelledError is not an Exception (the module    *)
(* needs Python 3.9 for list[...] at line 35, and since 3.8 it derives from *)
(* BaseException), so neither except clause (lines 608, 629) catches it and *)
(* only the finally clause runs before it reaches the caller.               *)

\* A cancellation that leaves the coroutine without running the finally clause.
CancelSkipsFinally ==
    /\ pc = "loop"
    /\ Len(hist) > 0
    /\ result' = [returned |-> FALSE, raised |-> "CancelledError",
                  records |-> Len(steps), iterations |-> Len(hist)]
    /\ pc' = "done"
    /\ UNCHANGED <<agent, web, url, max_steps, steps, step, status, last_action,
                   repeated_actions, closeCalls, call, hist, peer>>

\* Line 606 cancelled: the pause after an iteration that ended with CONTINUE
\* raises CancelledError; result records what had been appended by then.
Cancel ==
    /\ pc = "loop"
    /\ Len(hist) > 0
    /\ result' = [returned |-> FALSE, raised |-> "CancelledError",
                  records |-> Len(steps), iterations |-> Len(hist)]
    /\ pc' = "finally"
    /\ UNCHANGED <<agent, web, url, max_steps, steps, step, status, last_action,
                   repeated_actions, closeCalls, call, hist, peer>>

CancelNext == Start \/ Iterate \/ Return \/ Finally \/ Cancel

CancelSpec == Init /\ [][CancelNext]_vars

-----------------------------------------------------------------------------
(* Two autonomous_process runs at once (two requests to /autonomous, lines  *)
(* 494-520, each in its own asyncio.run).  Everything a run works on is a   *)
(* local of its coroutine: agent (line 548), with the playwright, browser   *)
(* and page handles it holds as instance attributes (lines 56-62, 65-74),   *)
(* steps, step, status, last_action and repeated_actions (lines 550,        *)
(* 563-569).  The variables hold the locals of the run that is executing,   *)
(* peer those of the other one; Switch hands execution over.                *)

\* The locals of the run that is executing.
Frame ==
    [agent |-> agent, web |-> web, pc |-> pc, url |-> url, max_steps |-> max_steps,
     steps |-> steps, step |-> step, status |-> status, last_action |-> last_action,
     repeated_actions |-> repeated_actions, result |-> result,
     closeCalls |-> closeCalls, call |-> call, hist |-> hist]

\* A run about to start, called with url u and max_steps m.
NewRun(u, m) ==
    [agent |-> NewAgent, web |-> NewWeb, pc |-> "start", url |-> u, max_steps |-> m,
     steps |-> <<>>, step |-> 1, status |-> "CONTINUE", last_action |-> <<>>,
     repeated_actions |-> 0, result |-> NoResult, closeCalls |-> 0, call |-> NoCall,
     hist |-> <<>>]

\* The run with locals fr goes on.
Resume(fr) ==
    /\ agent' = fr.agent
    /\ web' = fr.web
    /\ pc' = fr.pc
    /\ url' = fr.url
    /\ max_steps' = fr.max_steps
    /\ steps' = fr.steps
    /\ step' = fr.step
    /\ status' = fr.status
    /\ last_action' = fr.last_action
    /\ repeated_actions' = fr.repeated_actions
    /\ result' = fr.result
    /\ closeCalls' = fr.closeCalls
    /\ call' = fr.call
    /\ hist' = fr.hist

\* The two runs working on one module-level agent instead of line 548's local:
\* the agent and the browser behind it stay where they are when the other run
\* takes over.
SwitchSharedAgent ==
    /\ peer # NoPeer
    /\ peer' = Frame
    /\ Resume([peer EXCEPT !.agent = agent, !.web = web])

\* The executing run is suspended and the other one goes on.
Switch ==
    /\ peer # NoPeer
    /\ peer' = Frame
    /\ Resume(peer)

PairInit ==
    /\ agent = NewAgent
    /\ web = NewWeb
    /\ pc = "start"
    /\ url = uHome
    /\ max_steps \in 1..PairSteps
    /\ steps = <<>>
    /\ step = 1
    /\ status = "CONTINUE"
    /\ last_action = <<>>
    /\ repeated_actions = 0
    /\ result = NoResult
    /\ closeCalls = 0
    /\ call = NoCall
    /\ hist = <<>>
    /\ peer \in {NewRun(uPricing, m) : m \in 1..PairSteps}

PairNext == Start \/ Iterate \/ Return \/ Finally \/ Switch

PairSpec == PairInit /\ [][PairNext]_vars

-----------------------------------------------------------------------------
(* The agent used call by call: a new agent, or an agent with a live       *)
(* session that has run any number of tasks, on which execute_task,        *)
(* close_session and create_session are called.                            *)

\* The completions the model gives to a single call.
AgentResponses ==
    {tClickGo, tClickPricing, tFillEmail, tScrollPadded, tNavHome, tLowerFailed,
     tThink, tEmpty, kTASK_COMPLETE, kTASK_FAILED, tFailedPadded, tSearch,
     tNavNowhere}

\* An agent after create_session on page d and n execute_task calls.
LiveAgent(d, n) ==
    [playwright |-> "playwright", browser |-> "browser", page |-> "page",
     session_id |-> "session", current_url |-> Pages[d].url,
     screenshot |-> <<d, 0>>, step_count |-> n]

AgentInit ==
    /\ \/ agent = NewAgent /\ web = NewWeb
       \/ \E d \in 1..Len(Pages), n \in 0..MaxStepCount :
            /\ agent = LiveAgent(d, n)
            /\ web = [NewWeb EXCEPT !.pw = 1, !.browser = 1, !.dom = d]
    /\ pc = "agent"
    /\ url = uHome
    /\ max_steps = 0
    /\ steps = <<>>
    /\ step = 1
    /\ status = "CONTINUE"
    /\ last_action = <<>>
    /\ repeated_actions = 0
    /\ result = NoResult
    /\ closeCalls = 0
    /\ call = NoCall
    /\ hist = <<>>
    /\ peer = NoPeer

\* What a call of execute_task leaves.
Tasked(o) == agent' = o.agent /\ web' = o.web /\ call' = o

\* One call of execute_task, the one call a behaviour observes.
AgentTask ==
    /\ pc = "agent"
    /\ call = NoCall
    /\ \E pre \in {"none"} \cup PreCalls, ok \in BOOLEAN, content \in AgentResponses,
          post \in BOOLEAN :
         /\ ~ok => content = tEmpty
         /\ pre # "none" \/ agent.page = None => ok /\ content = tEmpty /\ ~post
         /\ agent.page = None => pre = "none"
         /\ \E f \in 0..(IF pre = "none" /\ agent.page # None
                         THEN ActionCalls(determine_action(agent, ok, content),
                                          agent, web)
                         ELSE 0) :
              \E o \in {execute_task(agent, web, pre, ok, content, f, post)} :
                Tasked(o)
    /\ UNCHANGED <<pc, url, max_steps, steps, step, status, last_action,
                   repeated_actions, result, closeCalls, hist, peer>>

\* What a call of close_session or create_session leaves.
Left(r) == agent' = r.agent /\ web' = r.web

\* One call of close_session.
AgentClose ==
    /\ pc = "agent"
    /\ closeCalls < 2
    /\ \E r \in {close_session(agent, web)} : Left(r)
    /\ closeCalls' = closeCalls + 1
    /\ UNCHANGED <<pc, url, max_steps, steps, step, status, last_action,
                   repeated_actions, result, call, hist, peer>>

\* One call of create_session on an agent without a page.
AgentCreate ==
    /\ pc = "agent"
    /\ agent.page = None /\ web.pw = 0
    /\ \E u \in {uHome, uPricing},
          fault \in {"none"} \cup {SessionCalls[i] : i \in 1..Len(SessionCalls)} :
         \E r \in {create_session(agent, web, u, fault)} : Left(r)
    /\ UNCHANGED <<pc, url, max_steps, steps, step, status, last_action,
                   repeated_actions, result, closeCalls, call, hist, peer>>

AgentNext == AgentTask \/ AgentClose \/ AgentCreate

AgentSpec == AgentInit /\ [][AgentNext]_vars

-----------------------------------------------------------------------------
(* execute_action called by itself: an agent with a live session on some    *)
(* page, after any number of tasks, is handed one directive text.           *)

\* The directive texts handed to execute_action.
Directives ==
    {tClickGo, tClickPricing, tClickLower, tClickOneQuote, tClickBoth, tClickBare,
     tClickLink, tFillEmail, tFillTwo, tFillSpaced, kSCROLL, tNavHome, tNavHttp,
     tNavTwice, tNavBare, tSearch, tThink, tEmpty, tLowerFailed, kTASK_COMPLETE,
     kTASK_FAILED, tBothMarkers, tClickFailed, tNavFailed, tNavNowhere,
     tNavOnly, tNavUpper}

ActionInit ==
    /\ \E d \in 1..Len(Pages), n \in 0..MaxStepCount :
         /\ agent = LiveAgent(d, n)
         /\ web = [NewWeb EXCEPT !.pw = 1, !.browser = 1, !.dom = d]
    /\ pc = "action"
    /\ url = uHome
    /\ max_steps = 0
    /\ steps = <<>>
    /\ step = 1
    /\ status = "CONTINUE"
    /\ last_action = <<>>
    /\ repeated_actions = 0
    /\ result = NoResult
    /\ closeCalls = 0
    /\ call = NoCall
    /\ hist = <<>>
    /\ peer = NoPeer

\* What one call of execute_action(action) did, on page dom with step_count
\* at count: kind is the branch taken, calls the calls on the page the branch
\* makes in order when none raises, f the one made to raise (0: none); the
\* other fields are what it returned and left.
Acted(action, dom, count, kind, calls, f, r) ==
    /\ agent' = r.agent
    /\ web' = r.web
    /\ call' = [asked |-> FALSE, model_ok |-> FALSE, executed |-> TRUE,
                action |-> action, dom |-> dom, count |-> count, kind |-> kind,
                calls |-> calls, f |-> f,
                exec_status |-> r.status, message |-> r.message, ops |-> r.ops,
                exec_raised |-> r.raised, url |-> r.agent.current_url]

\* One call of execute_action, the one call a behaviour observes.
ExecuteAction ==
    /\ pc = "action"
    /\ call = NoCall
    /\ \E action \in Directives :
         \E kind \in {ActionKind(action)} :
           \E plan \in {ActionPlan(kind, action, agent, web)} :
             \E f \in 0..(IF kind \in {"COMPLETE", "FAILED"} THEN 0 ELSE Len(plan.ops)) :
               \E r \in {ExecutePlan(kind, plan, agent, web, f)} :
                 Acted(action, web.dom, agent.step_count, kind, plan.ops, f, r)
    /\ UNCHANGED <<pc, url, max_steps, steps, step, status, last_action,
                   repeated_actions, result, closeCalls, hist, peer>>

ActionNext == ExecuteAction

ActionSpec == ActionInit /\ [][ActionNext]_vars

-----------------------------------------------------------------------------
(* Properties.                                                             *)

\* An iteration in which a call failed: execute_task raised, the model call
\* failed, or a call of execute_action on the page raised.
Faulted(h) == h.raised \/ (h.asked /\ ~h.model_ok) \/ h.exec_raised

\* Iterations i-n+1 .. i all returned the same action text.
SameRun(i, n) ==
    /\ i >= n
    /\ \A j \in (i - n + 1)..i : ~hist[j].raised /\ hist[j].action = hist[i].action

\* Iterations i-n+1 .. i ran without any failed call.
CleanRun(i, n) == \A j \in (i - n + 1)..i : ~Faulted(hist[j])

(* C1: a result returned with a trace holds the initial record followed by  *)
(* exactly one record per iteration that ran, the iteration's action or the *)
(* driver's ERROR record when execute_task raised; total_steps is the       *)
(* length of the trace minus one.                                           *)
C1_TraceLength ==
    result.returned /\ result.success =>
        /\ Len(result.steps) = Len(hist) + 1
        /\ result.total_steps = Len(result.steps) - 1
        /\ result.steps[1].step_number = 0
        /\ result.steps[1].action = kStarted \o url
        /\ \A i \in 1..Len(hist) :
             result.steps[i + 1].action =
                 IF hist[i].raised THEN kERROR ELSE hist[i].action

C1_Witness ==
    /\ result.returned /\ result.success
    /\ Len(hist) >= 2
    /\ hist[Len(hist)].raised

(* C2: the loop never runs more than max_steps iterations, none when        *)
(* max_steps <= 0, and autonomous_process returns in the end.               *)
C2_Bounded ==
    /\ [](Len(hist) <= IF max_steps > 0 THEN max_steps ELSE 0)
    /\ <>(pc = "done")

C2_Witness ==
    /\ pc = "done"
    /\ max_steps >= 3
    /\ Len(hist) = max_steps
    /\ result.success /\ result.final_status = "CONTINUE"

C4_FiveScrollsStop ==
    \A i \in 1..Len(hist) :
        SameRun(i, 5) /\ Contains(hist[i].action, kSCROLL) =>
            /\ steps[i + 1].status = "COMPLETE"
            /\ steps[i + 1].message = Msg("Finished exploring page content", <<>>)
            /\ i = Len(hist)
            /\ pc # "loop"

C4_Witness ==
    /\ Len(hist) = 5
    /\ SameRun(5, 5)
    /\ hist[5].action = kSCROLL
    /\ hist[5].forced
    /\ steps[6].status = "COMPLETE"
    /\ pc = "done"

(* C4 as claimed: four consecutive identical SCROLL directives force        *)
(* COMPLETE with the finished-exploring message on the fourth iteration.    *)
(* Stated for iterations in which no call failed.                           *)
C4_FourScrollsStop ==
    \A i \in 1..Len(hist) :
        /\ SameRun(i, 4)
        /\ CleanRun(i, 4)
        /\ ActionKind(hist[i].action) = "SCROLL"
        /\ Contains(hist[i].action, kSCROLL)
        => /\ steps[i + 1].status = "COMPLETE"
           /\ steps[i + 1].message = Msg("Finished exploring page content", <<>>)

(* C5: in the second iteration of a run of exactly two identical action     *)
(* texts, wherever the run starts, the repetition check does not force      *)
(* COMPLETE: the recorded status is the one execute_action returned.        *)
C5_TwoRepeatsContinue ==
    \A i \in 2..Len(hist) :
        /\ ~hist[i].raised
        /\ hist[i - 1].action = hist[i].action
        /\ (i = 2 \/ hist[i - 2].action # hist[i].action)
        => /\ ~hist[i].forced
           /\ steps[i + 1].status = hist[i].exec_status

C5_Witness ==
    /\ Len(hist) >= 3
    /\ ~hist[3].raised
    /\ hist[3].action = hist[2].action
    /\ hist[1].action # hist[2].action
    /\ steps[4].status = "CONTINUE"

(* C6: when the model answers, determine_action returns TASK_COMPLETE if    *)
(* step_count is 8 or more and the trimmed answer contains neither          *)
(* TASK_COMPLETE nor TASK_FAILED, and the trimmed answer otherwise.         *)
C6_ForcedCompletion ==
    call.asked /\ call.model_ok =>
        call.action =
            IF /\ call.count >= 8
               /\ ~Contains(Strip(call.content), kTASK_COMPLETE)
               /\ ~Contains(Strip(call.content), kTASK_FAILED)
            THEN kTASK_COMPLETE
            ELSE Strip(call.content)

C6_Witness ==
    /\ call.asked /\ call.model_ok
    /\ call.count = 8
    /\ call.content = tClickGo
    /\ call.action = kTASK_COMPLETE

(* C7: when autonomous_process is done, whatever the exit path,             *)
(* close_session has run exactly once, the agent holds no playwright,       *)
(* browser or page, and no browser or playwright process is left running    *)
(* or was closed twice; before that close_session has not run.              *)
C7_ReleasedOnce ==
    /\ pc = "done" =>
          /\ closeCalls = 1
          /\ agent.playwright = None /\ agent.browser = None /\ agent.page = None
          /\ web.pw = 0 /\ web.browser = 0
          /\ web.closes <= 1 /\ web.stops <= 1
    /\ pc # "done" => closeCalls = 0

C7_Witness ==
    /\ pc = "done"
    /\ Len(hist) > 0
    /\ hist[Len(hist)].exec_raised
    /\ hist[Len(hist)].raised
    /\ web.closes = 1 /\ web.stops = 1

(* C8: when a call failed in some iteration, what autonomous_process        *)
(* returns is a result with the whole trace and a terminal final status,    *)
(* the status of the last record.                                           *)
C8_FaultsReturnTrace ==
    result.returned /\ (\E i \in 1..Len(hist) : Faulted(hist[i])) =>
        /\ result.success
        /\ result.steps = steps
        /\ Len(result.steps) = Len(hist) + 1
        /\ result.final_status \in Terminal
        /\ result.final_status = result.steps[Len(result.steps)].status

C8_Witness ==
    /\ result.returned
    /\ Len(hist) > 0
    /\ hist[Len(hist)].raised
    /\ hist[Len(hist)].asked
    /\ result.final_status = "ERROR"

(* C9, as amended: when the model call fails in an iteration,               *)
(* determine_action returns TASK_FAILED, it is the last iteration, and its  *)
(* record and the final status are FAILED, or ERROR when the screenshot     *)
(* taken after the action raises in that iteration.                         *)
C9_ModelFaultEnds ==
    \A i \in 1..Len(hist) :
        hist[i].asked /\ ~hist[i].model_ok =>
            /\ hist[i].action = kTASK_FAILED
            /\ hist[i].exec_status = "FAILED"
            /\ steps[i + 1].status = (IF hist[i].raised THEN "ERROR" ELSE "FAILED")
            /\ status = steps[i + 1].status
            /\ i = Len(hist)
            /\ pc # "loop"

C9_Witness ==
    /\ pc = "done"
    /\ Len(hist) >= 2
    /\ hist[Len(hist)].asked /\ ~hist[Len(hist)].model_ok
    /\ ~hist[Len(hist)].raised
    /\ result.final_status = "FAILED"

(* C9 as claimed: when the model call fails in an iteration, that           *)
(* iteration's record has status FAILED and the session ends FAILED         *)
(* without another iteration.                                               *)
C9_ModelFaultFails ==
    \A i \in 1..Len(hist) :
        hist[i].asked /\ ~hist[i].model_ok =>
            /\ hist[i].action = kTASK_FAILED
            /\ steps[i + 1].status = "FAILED"
            /\ status = "FAILED"
            /\ i = Len(hist)
            /\ pc # "loop"

(* C10 as claimed: when a call on the page raises while execute_action      *)
(* runs in an iteration, that iteration's record has status ERROR and the   *)
(* session's final status is ERROR.                                         *)
C10_ActionFaultIsError ==
    \A i \in 1..Len(hist) :
        hist[i].exec_raised =>
            /\ steps[i + 1].status = "ERROR"
            /\ status = "ERROR"
            /\ i = Len(hist)

\* The positions of the single quotes of a text.
Quotes(s) == {i \in 1..Len(s) : s[i] = "'"}

\* The text between the first two single quotes, for a text that has two.
Quoted(s) ==
    LET q1 == First(Quotes(s))
        q2 == First(Quotes(s) \ {q1})
    IN  SubSeq(s, q1 + 1, q2 - 1)

\* The call observed is one of execute_action alone.
Executing == call # NoCall /\ pc = "action"

(* C11: whatever the directive text and whichever call on the page raises,  *)
(* execute_action returns a status that is one of CONTINUE, COMPLETE,       *)
(* FAILED, ERROR, with a message; when a call raised, the status is ERROR   *)
(* and the calls after the raising one were not made.                       *)
C11_NeverRaises ==
    Executing =>
        /\ call.exec_status \in {"CONTINUE", "COMPLETE", "FAILED", "ERROR"}
        /\ call.message.text # ""
        /\ call.f > 0 => call.exec_raised
        /\ call.exec_raised =>
              /\ call.exec_status = "ERROR"
              /\ call.message.args = <<xFault>>
              /\ Len(call.ops) < Len(call.calls)
        /\ ~call.exec_raised => call.exec_status # "ERROR"

C11_Witness ==
    /\ Executing
    /\ call.action = tClickGo
    /\ call.f = 4
    /\ call.calls[4].op = "click"
    /\ call.exec_status = "ERROR"
    /\ call.message.text = "Click failed: "
    /\ Len(call.ops) = 3

(* C12 as claimed: for a NAVIGATE directive whose text contains http, the   *)
(* URL handed to goto is the text of the directive from the first http to   *)
(* the end.                                                                 *)
C12_NavigateDestination ==
    Executing /\ call.kind = "NAVIGATE" /\ Contains(call.action, khttp) =>
        /\ Len(call.calls) > 0
        /\ call.calls[1].op = "goto"
        /\ call.calls[1].arg = DropFirst(call.action, Find(call.action, khttp) - 1)

(* C13 as claimed: a directive taken as a CLICK that contains button or     *)
(* link works on buttons when it contains button and on links otherwise;    *)
(* with a pair of single quotes it scans the elements for the text between  *)
(* the first pair, and the text reported as clicked is that text; without   *)
(* a pair it has no target and goes straight to the first element.          *)
C13_ClickTarget ==
    Executing /\ call.kind = "CLICK"
              /\ (Contains(Lower(call.action), kbutton) \/ Contains(Lower(call.action), klink)) =>
        /\ Len(call.calls) > 0
        /\ \A i \in 1..Len(call.calls) :
             call.calls[i].op # "wait" =>
                 call.calls[i].kind = (IF Contains(Lower(call.action), kbutton)
                                       THEN "button" ELSE "a")
        /\ IF Cardinality(Quotes(call.action)) >= 2
           THEN /\ call.calls[1].op = "query_all"
                /\ (call.message.text \in {"Clicked button: ", "Clicked link: "} =>
                        call.message.args = <<Quoted(call.action)>>)
           ELSE /\ call.calls[1].op = "query"
                /\ call.message.text \notin {"Clicked button: ", "Clicked link: "}

(* C14: a directive taken as a FILL with at least three tokens looks for    *)
(* the input named by its second token, and the value it writes and         *)
(* reports is the remaining tokens in order, separated by single spaces;    *)
(* with fewer than three tokens it makes no call on the page and returns    *)
(* CONTINUE.                                                                *)
C14_FillValue ==
    Executing /\ call.kind = "FILL" =>
        LET parts == SplitWords(call.action)
        IN  IF Len(parts) >= 3
            THEN /\ call.calls[1] = Op("query", "name", 0, parts[2])
                 /\ \A i \in 1..Len(call.calls) :
                      call.calls[i].op = "fill" =>
                          LET value == call.calls[i].arg
                          IN  /\ SplitWords(value) = SubSeq(parts, 3, Len(parts))
                              /\ \A j \in 1..Len(value) :
                                   value[j] \in Whitespace =>
                                       /\ value[j] = " "
                                       /\ 1 < j /\ j < Len(value)
                                       /\ value[j + 1] \notin Whitespace
                              /\ (call.exec_status = "CONTINUE" =>
                                      value \in {call.message.args[k] :
                                                   k \in 1..Len(call.message.args)})
            ELSE /\ call.calls = <<>>
                 /\ call.ops = <<>>
                 /\ call.exec_status = "CONTINUE"

C14_Witness ==
    /\ Executing
    /\ call.action = tFillSpaced
    /\ call.f = 0
    /\ Len(call.ops) = 6
    /\ call.ops[5].op = "fill"
    /\ call.ops[5].arg = <<"a", " ", "b">>
    /\ call.exec_status = "CONTINUE"

Returned == result.returned /\ result.success

\* Iterations 1 to n all recorded CONTINUE.
Continued(n) == \A i \in 1..n : steps[i + 1].status = "CONTINUE"

\* No iteration raised, returned a terminal status or was stopped for repetition.
NoneTerminal ==
    \A i \in 1..Len(hist) :
        ~hist[i].raised /\ hist[i].exec_status = "CONTINUE" /\ ~hist[i].forced

(* C16, as amended: when iterations 1 to k-1 are recorded with CONTINUE and *)
(* the model's directive in iteration k is TASK_COMPLETE, the result has    *)
(* total_steps = k, no record but that of iteration k has a terminal        *)
(* status, and the status of that record and the final status are           *)
(* COMPLETE, or ERROR when the screenshot taken after the action raises in  *)
(* iteration k.                                                             *)
C16_CompleteAtStepK ==
    Returned =>
        \A k \in 1..Len(hist) :
            Continued(k - 1) /\ hist[k].asked /\ hist[k].model_ok
                             /\ hist[k].action = kTASK_COMPLETE =>
                /\ k = Len(hist)
                /\ result.total_steps = k
                /\ result.final_status = (IF hist[k].raised THEN "ERROR" ELSE "COMPLETE")
                /\ result.steps[k + 1].status = result.final_status
                /\ \A i \in 1..Len(result.steps) :
                     result.steps[i].status \in Terminal => i = k + 1

C16_Witness ==
    /\ Returned
    /\ Len(hist) = 2
    /\ hist[1].action = tClickPricing
    /\ steps[2].status = "CONTINUE"
    /\ web.dom = 2
    /\ hist[2].action = kTASK_COMPLETE
    /\ ~hist[2].raised
    /\ result.final_status = "COMPLETE"
    /\ result.total_steps = 2

(* C16 as claimed: when iterations 1 to k-1 are recorded with CONTINUE and  *)
(* the model's directive in iteration k is TASK_COMPLETE, the final status  *)
(* is COMPLETE, total_steps is k and the record of iteration k is the only  *)
(* one with status COMPLETE.                                                *)
C16_CompleteAlways ==
    Returned =>
        \A k \in 1..Len(hist) :
            Continued(k - 1) /\ hist[k].asked /\ hist[k].model_ok
                             /\ hist[k].action = kTASK_COMPLETE =>
                /\ result.final_status = "COMPLETE"
                /\ result.total_steps = k
                /\ \A i \in 1..Len(result.steps) :
                     result.steps[i].status = "COMPLETE" <=> i = k + 1

(* C17: when the loop ends by its step limit, every iteration having        *)
(* returned CONTINUE from the executor without being stopped for            *)
(* repetition, the final status is CONTINUE, max_steps iterations ran (none *)
(* when max_steps <= 0) and no record has status COMPLETE, FAILED or ERROR.  *)
C17_StepLimitIsContinue ==
    Returned /\ NoneTerminal =>
        /\ result.final_status = "CONTINUE"
        /\ result.total_steps = (IF max_steps > 0 THEN max_steps ELSE 0)
        /\ \A i \in 1..Len(result.steps) : result.steps[i].status \notin Terminal

C17_Witness ==
    /\ Returned /\ NoneTerminal
    /\ max_steps = 3
    /\ Len(hist) = 3
    /\ hist[1].action # hist[2].action
    /\ result.final_status = "CONTINUE"
    /\ result.total_steps = 3

(* C18, as amended: only the repetition stop is converted to COMPLETE.      *)
(* When an iteration is stopped for repetition its record and the final     *)
(* status are COMPLETE; when the step budget is exhausted without a         *)
(* terminal status the final status stays CONTINUE.                         *)
C18_OnlyRepetitionConverted ==
    Returned =>
        /\ \A i \in 1..Len(hist) :
             hist[i].forced =>
                 /\ i = Len(hist)
                 /\ result.steps[i + 1].status = "COMPLETE"
                 /\ result.final_status = "COMPLETE"
        /\ NoneTerminal => result.final_status # "COMPLETE"

C18_Witness ==
    /\ Returned /\ NoneTerminal
    /\ max_steps = 2
    /\ Len(hist) = 2
    /\ hist[1].action = hist[2].action
    /\ result.final_status = "CONTINUE"

(* C18 as claimed: when the step budget is exhausted without any step       *)
(* having returned a terminal status, the final status is COMPLETE.         *)
C18_ExhaustedIsComplete ==
    Returned /\ NoneTerminal => result.final_status = "COMPLETE"

\* autonomous_process was cancelled during a pause.
Cancelled == "raised" \in DOMAIN result

(* C19: once autonomous_process is cancelled during the pause between two   *)
(* iterations, no iteration runs and no record is appended any more, and    *)
(* the only thing that follows is close_session, run once, after which the  *)
(* agent holds no playwright, browser or page and no browser process is     *)
(* left, as on a return.                                                    *)
C19_CancelReleases ==
    Cancelled =>
        /\ Len(hist) = result.iterations
        /\ Len(steps) = result.records
        /\ \/ pc = "finally" /\ closeCalls = 0
           \/ /\ pc = "done"
              /\ closeCalls = 1
              /\ agent.playwright = None /\ agent.browser = None /\ agent.page = None
              /\ web.pw = 0 /\ web.browser = 0
              /\ web.closes = 1 /\ web.stops = 1

C19_Witness ==
    /\ Cancelled
    /\ pc = "done"
    /\ max_steps > Len(hist)
    /\ Len(hist) = 2
    /\ status = "CONTINUE"
    /\ web.closes = 1

\* The iterations of the run with locals fr in which execute_task got as far
\* as incrementing step_count (line 112).
Counted(fr) == {i \in 1..Len(fr.hist) : fr.hist[i].asked}

\* The iterations of the run with locals fr that appended an action record.
Appended(fr) == {i \in 1..Len(fr.hist) : ~fr.hist[i].raised}

\* The action text of iteration i of the run with locals fr; before the first
\* iteration last_action is "" (line 568).
Directive(fr, i) == IF i = 0 THEN <<>> ELSE fr.hist[i].action

\* How many action texts up to the latest are the same text in a row.
Streak(fr) ==
    LET n == Len(fr.hist)
    IN  Cardinality({k \in 0..n :
                       \A j \in k..n : /\ j = 0 \/ ~fr.hist[j].raised
                                       /\ Directive(fr, j) = Directive(fr, n)})

\* The latest iteration of the run with locals fr that returned an action text.
Latest(fr) ==
    IF fr.hist # <<>> /\ fr.hist[Len(fr.hist)].raised
    THEN Len(fr.hist) - 1
    ELSE Len(fr.hist)

\* The counters of the run with locals fr count its own iterations only.
OwnCounters(fr) ==
    /\ fr.agent.step_count = Cardinality(Counted(fr))
    /\ fr.step = 1 + Cardinality(Appended(fr))
    /\ Len(fr.steps) \in {0, 1 + Len(fr.hist)}
    /\ \A i \in Appended(fr) :
         /\ fr.hist[i].count = i - 1
         /\ fr.steps[i + 1].action = fr.hist[i].action
    /\ fr.last_action = Directive(fr, Latest(fr))
    /\ Latest(fr) = Len(fr.hist) => fr.repeated_actions = Streak(fr) - 1

\* The browser of the run with locals fr is started, used and closed by that
\* run only: it runs from the run's init_browser until the run's close_session,
\* and the latest screenshot in the run's trace is what the run's own calls
\* left on the page.
OwnBrowser(fr) ==
    /\ fr.web.pw = (IF fr.agent.playwright # None THEN 1 ELSE 0)
    /\ fr.web.browser = (IF fr.agent.browser # None THEN 1 ELSE 0)
    /\ fr.web.closes <= fr.closeCalls
    /\ fr.web.stops <= fr.closeCalls
    /\ fr.pc \in {"loop", "return"} => fr.agent.page # None
    /\ fr.pc \in {"loop", "return"} /\ (fr.hist = <<>> \/ ~fr.hist[Len(fr.hist)].raised) =>
         fr.steps[Len(fr.steps)].screenshot = <<fr.web.dom, fr.web.scrollY>>
    /\ fr.pc = "done" =>
         /\ fr.closeCalls = 1
         /\ fr.agent.playwright = None /\ fr.agent.browser = None /\ fr.agent.page = None

(* C20: however two autonomous_process runs interleave, each run's          *)
(* step_count, step, last_action and repeated_actions count that run's own  *)
(* iterations only, and each run's browser is started, driven, shot and     *)
(* closed by that run only: it stays open and shows what the run's own      *)
(* actions left while the other run acts on or closes its browser.          *)
C20_RunsIsolated ==
    peer # NoPeer =>
        /\ OwnCounters(Frame) /\ OwnBrowser(Frame)
        /\ OwnCounters(peer) /\ OwnBrowser(peer)

\* One run has closed its session after two iterations that scrolled its page,
\* while the other, started on another page, is between two iterations with
\* its browser open.
C20_Witness ==
    /\ peer # NoPeer
    /\ peer.pc = "done"
    /\ peer.web.closes = 1
    /\ Len(peer.hist) = 2
    /\ peer.repeated_actions = 1
    /\ peer.steps[3].screenshot # peer.steps[1].screenshot
    /\ pc = "loop"
    /\ Len(hist) = 1
    /\ ~hist[1].raised
    /\ repeated_actions = 0
    /\ agent.step_count = 1
    /\ agent.browser # None
    /\ web.browser = 1
    /\ steps[2].screenshot # peer.steps[3].screenshot

\* The calls of execute_action that act on the page: everything but the
\* queries for elements and the pauses.
PageActions(ops) ==
    {i \in 1..Len(ops) : ops[i].op \notin {"query", "query_all", "wait"}}

\* The repetition check forced the stop in the latest iteration.
ForcedNow == pc = "return" /\ hist # <<>> /\ hist[Len(hist)].forced

\* The browser the latest iteration started from: the page and offset the
\* record before it shows.
Before ==
    [web EXCEPT !.dom = steps[Len(steps) - 1].screenshot[1],
                !.scrollY = steps[Len(steps) - 1].screenshot[2]]

(* C21: in the iteration where the repetition check forces COMPLETE, the    *)
(* directive has been executed before it is compared with the previous one: *)
(* execute_action made the calls of the directive on the page as in any     *)
(* other iteration (a scroll scrolls once more), and only the status and    *)
(* the message of the record are overridden; the record keeps the           *)
(* directive's text and the screenshot taken after its execution.           *)
C21_ForcedAfterExecution ==
    ForcedNow =>
        LET n == Len(steps)
            a0 == [agent EXCEPT !.step_count = @ - 1]
        IN  /\ steps[n].action = call.action
            /\ steps[n].status = "COMPLETE"
            /\ call.exec_status \in {"CONTINUE", "ERROR"}
            /\ \E f \in 0..ActionCalls(call.action, a0, Before) :
                 /\ call.ops = execute_action(call.action, a0, Before, f).ops
                 /\ web = execute_action(call.action, a0, Before, f).web
                 /\ call.exec_status = execute_action(call.action, a0, Before, f).status
            /\ ~call.exec_raised =>
                 /\ call.ops = ActionPlan(ActionKind(call.action), call.action, a0, Before).ops
                 /\ call.ops # <<>>
                 /\ steps[n].screenshot = <<web.dom, web.scrollY>>

\* The fifth SCROLL in a row scrolled the page and was then stopped.
C21_Witness ==
    /\ ForcedNow
    /\ ActionKind(call.action) = "SCROLL"
    /\ ~call.exec_raised
    /\ PageActions(call.ops) # {}
    /\ steps[Len(steps)].screenshot[2] = steps[Len(steps) - 1].screenshot[2] + 500
    /\ steps[Len(steps)].status = "COMPLETE"

(* C21 as stated: in the iteration where the repetition check forces        *)
(* COMPLETE, the repeated directive's action on the page is not performed.  *)
C21_ForcedNotPerformed ==
    ForcedNow => PageActions(call.ops) = {}

(* C22: the repeat counter at which the stop is forced is 4 for exactly the *)
(* directives execute_action runs as a scroll (text starting with SCROLL in *)
(* any letter case) and 3 for every other directive, a CLICK whose text     *)
(* contains the word SCROLL included.                                       *)
C22_ScrollAllowance ==
    hist # <<>> /\ ~hist[Len(hist)].raised /\ repeated_actions > 0 =>
        hist[Len(hist)].forced =
            (repeated_actions >= (IF ActionKind(hist[Len(hist)].action) = "SCROLL"
                                  THEN 4 ELSE 3))

(* C23: whatever max_steps is and whatever the model answers, an iteration  *)
(* whose directive is decided with step_count at 8 or more ends the loop    *)
(* with a terminal status, so no session runs more than 9 iterations.       *)
C23_CircuitBreaker ==
    /\ Len(hist) <= ForceStep + 1
    /\ \A i \in 1..Len(hist) :
         hist[i].count >= ForceStep =>
            /\ i = Len(hist)
            /\ status \in Terminal
            /\ pc \in {"return", "finally", "done"}
            /\ steps[i + 1].status = status

\* The ninth iteration of a session allowed more: the model asked for a click,
\* the directive became TASK_COMPLETE.
C23_Witness ==
    /\ Len(hist) = ForceStep + 1
    /\ max_steps > ForceStep + 1
    /\ hist[ForceStep + 1].count = ForceStep
    /\ hist[ForceStep + 1].model_ok
    /\ call.content = tClickGo
    /\ hist[ForceStep + 1].action = kTASK_COMPLETE
    /\ ~hist[ForceStep + 1].forced
    /\ status = "COMPLETE"
    /\ pc = "done"

\* execute_action ran a directive that starts with CLICK and names neither a
\* button nor a link.
BareClick ==
    /\ Executing
    /\ call.kind = "CLICK"
    /\ ~Contains(Lower(call.action), kbutton)
    /\ ~Contains(Lower(call.action), klink)

(* C24: a directive that starts with CLICK but contains neither button nor  *)
(* link is handled by the CLICK branch, not as UNKNOWN: at every step count *)
(* it makes no call on the page at all (no scroll, no pause) and returns    *)
(* CONTINUE with the message "No suitable element found to click".          *)
C24_BareClickDoesNothing ==
    BareClick =>
        /\ call.calls = <<>>
        /\ call.ops = <<>>
        /\ call.exec_status = "CONTINUE"
        /\ call.message = Msg("No suitable element found to click", <<>>)
        /\ web.scrollY = 0
        /\ web.dom = call.dom

C24_Witness ==
    /\ BareClick
    /\ call.action = tClickBare
    /\ call.count = 2
    /\ Dom(web).buttons # <<>>
    /\ call.exec_status = "CONTINUE"

(* C24 as stated: such a directive is handled as UNKNOWN: while step_count  *)
(* is at most 3 it triggers the exploratory scroll, later it only pauses,   *)
(* and it yields CONTINUE.                                                  *)
C24_BareClickIsUnknown ==
    BareClick /\ call.f = 0 =>
        /\ call.ops = UnknownBranch(call.action, call.count).ops
        /\ call.exec_status = "CONTINUE"

\* The text s holds the marker m in some letter case.
Marked(s, m) == Contains(Upper(s), m)

(* C25: execute_action classifies without regard to letter case and in the  *)
(* order of the grammar: a text holding TASK_COMPLETE in any letter case    *)
(* returns COMPLETE, also when it holds TASK_FAILED or starts with an       *)
(* action keyword; a text holding TASK_FAILED and not TASK_COMPLETE returns *)
(* FAILED, also when it starts with an action keyword; in both cases no     *)
(* call is made on the page.                                                *)
C25_MarkersFirst ==
    Executing =>
        /\ Marked(call.action, kTASK_COMPLETE) =>
             /\ call.exec_status = "COMPLETE"
             /\ call.message = Msg("Task completed successfully", <<>>)
             /\ call.ops = <<>> /\ call.calls = <<>>
             /\ web.dom = call.dom /\ web.scrollY = 0
        /\ Marked(call.action, kTASK_FAILED) /\ ~Marked(call.action, kTASK_COMPLETE) =>
             /\ call.exec_status = "FAILED"
             /\ call.message = Msg("Task failed - could not complete", <<>>)
             /\ call.ops = <<>> /\ call.calls = <<>>
             /\ web.dom = call.dom /\ web.scrollY = 0

\* A text that starts with click and holds both markers, not in upper case.
C25_Witness ==
    /\ Executing
    /\ call.action = tBothMarkers
    /\ StartsWith(Upper(call.action), kCLICK)
    /\ ~Contains(call.action, kTASK_COMPLETE)
    /\ Marked(call.action, kTASK_FAILED)
    /\ call.exec_status = "COMPLETE"
    /\ Dom(web).buttons # <<>>

(* C26: a model response that execute_action classifies as FAILED (it holds *)
(* TASK_FAILED in any letter case and not TASK_COMPLETE) is never replaced  *)
(* by TASK_COMPLETE in determine_action, at any step count.                 *)
C26_FailedIsKept ==
    /\ pc = "agent"
    /\ call # NoCall
    /\ call.asked
    /\ call.model_ok
    /\ ActionKind(Strip(call.content)) = "FAILED"
    => /\ call.action = Strip(call.content)
       /\ call.exec_status = "FAILED"

\* execute_task raised in the latest iteration.
RaisedNow == hist # <<>> /\ hist[Len(hist)].raised

(* C27: when execute_task raises in an iteration (a screenshot, the page    *)
(* content or the context extraction failed), the driver appends exactly    *)
(* one record, with status ERROR and the current step number, the final     *)
(* status is ERROR and no further iteration runs.  step_count is not        *)
(* incremented when the call that failed came before the model was asked;   *)
(* when it is the screenshot for the returned result, the directive has     *)
(* been executed and step_count has been incremented.                       *)
C27_RaisedIsRecorded ==
    /\ \A i \in 1..Len(hist) : hist[i].raised => i = Len(hist)
    /\ RaisedNow =>
         LET n == Len(hist)
         IN  /\ Len(steps) = n + 1
             /\ steps[n + 1] = FaultStep(n)
             /\ step = n
             /\ status = "ERROR"
             /\ pc \in {"return", "finally", "done"}
             /\ result.returned => result.final_status = "ERROR" /\ result.steps = steps
             /\ agent.step_count = hist[n].count + (IF hist[n].asked THEN 1 ELSE 0)
             /\ agent.step_count = (n - 1) + (IF hist[n].asked THEN 1 ELSE 0)

\* The screenshot after the third directive's execution failed.
C27_Witness ==
    /\ RaisedNow
    /\ Len(hist) = 3
    /\ hist[3].asked
    /\ hist[3].exec_status = "CONTINUE"
    /\ agent.step_count = 3
    /\ steps[4].step_number = 3
    /\ pc = "done"
    /\ result.final_status = "ERROR"

(* C27 as stated: when execute_task raises in an iteration, one ERROR       *)
(* record with the current step number is appended, the final status is     *)
(* ERROR, and step_count is not incremented by that iteration.              *)
C27_RaisedNotCounted ==
    RaisedNow =>
        /\ steps[Len(hist) + 1] = FaultStep(Len(hist))
        /\ status = "ERROR"
        /\ agent.step_count = Len(hist) - 1

\* execute_action ran a directive it takes as NAVIGATE.
Navigating == Executing /\ call.kind = "NAVIGATE"

\* current_url before the call of execute_action.
UrlBefore == Pages[call.dom].url

(* C28: a NAVIGATE directive whose text does not contain http yields        *)
(* CONTINUE with the message "Invalid navigation URL", makes no call on the *)
(* page and leaves current_url unchanged.  One whose text contains http is  *)
(* handed to goto; when goto or the pause after it raises (the destination  *)
(* is not a URL a page answers at), the result is ERROR with "Navigation    *)
(* failed: ..." and current_url is unchanged.  current_url changes only to  *)
(* the destination of a goto that succeeded.                                *)
C28_NavigateOutcome ==
    Navigating =>
        /\ ~Contains(call.action, khttp) =>
             /\ call.exec_status = "CONTINUE"
             /\ call.message = Msg("Invalid navigation URL", <<>>)
             /\ call.calls = <<>>
             /\ call.url = UrlBefore
             /\ web.dom = call.dom
        /\ Contains(call.action, khttp) =>
             /\ call.calls[1].op = "goto"
             /\ call.exec_raised =>
                  /\ call.exec_status = "ERROR"
                  /\ call.message.text = "Navigation failed: "
                  /\ call.url = UrlBefore
             /\ ~call.exec_raised =>
                  /\ call.exec_status = "CONTINUE"
                  /\ call.url = call.calls[1].arg
                  /\ PageOf(call.url) # 0
                  /\ web.dom = PageOf(call.url)
                  /\ call.ops = call.calls
        /\ call.url # UrlBefore => ~call.exec_raised /\ call.ops = call.calls

\* A destination no page answers at: goto raised by itself.
C28_Witness ==
    /\ Navigating
    /\ call.action = tNavNowhere
    /\ call.f = 0
    /\ call.calls[1].arg = uNowhere
    /\ call.exec_status = "ERROR"
    /\ call.url = UrlBefore

(* C28 as stated: a NAVIGATE directive whose payload is missing or is not a *)
(* URL a page answers at yields CONTINUE, not ERROR, and leaves current_url *)
(* unchanged.                                                               *)
C28_UnusableIsContinue ==
    Navigating /\ call.f = 0
               /\ (call.calls = <<>> \/ PageOf(call.calls[1].arg) = 0) =>
        /\ call.exec_status = "CONTINUE"
        /\ call.url = UrlBefore

\* How many iterations right before the latest one returned the action text
\* the latest one returned.
Preceding ==
    LET n == Len(hist)
    IN  Cardinality({k \in 1..(n - 1) :
                       \A j \in k..(n - 1) : hist[j].action = hist[n].action})

(* C29: after every iteration that returned a directive, repeated_actions   *)
(* is the number of iterations right before it, in a row, whose directive   *)
(* text is the same (0 when the previous one differed and in the first      *)
(* iteration), and last_action is the directive text of the iteration.      *)
C29_CounterCountsRepeats ==
    hist # <<>> /\ ~hist[Len(hist)].raised =>
        /\ last_action = hist[Len(hist)].action
        /\ repeated_actions = Preceding

(* C30: in the trace, every record but the last has status CONTINUE; once a *)
(* record with status COMPLETE, FAILED or ERROR is appended the loop is     *)
(* left, so that no further iteration runs and no record follows it; the    *)
(* final_status of a returned result is the status of its last record.      *)
C30_TerminalIsLast ==
    /\ \A i \in 1..(Len(steps) - 1) : steps[i].status = "CONTINUE"
    /\ steps # <<>> =>
         /\ steps[Len(steps)].status = status
         /\ Len(hist) = Len(steps) - 1
         /\ status \in Terminal => pc \in {"return", "finally", "done"}
    /\ Returned =>
         /\ result.steps = steps
         /\ result.final_status = result.steps[Len(result.steps)].status

\* A returned trace of four records ending with FAILED.
C30_Witness ==
    /\ Returned
    /\ pc = "done"
    /\ Len(result.steps) = 4
    /\ max_steps > 3
    /\ result.final_status = "FAILED"
    /\ result.steps[4].status = "FAILED"
    /\ result.steps[3].status = "CONTINUE"

(* C31: record i of the trace has step_number i: 0 for the initial record,  *)
(* then 1, 2, ... without gap or repeat, the record of a fault the driver   *)
(* caught included; and whenever the model is asked in iteration k,         *)
(* step_count is k - 1: it grows by one per iteration whose execute_task    *)
(* got past execute_action.                                                 *)
C31_StepNumbers ==
    /\ \A i \in 1..Len(steps) : steps[i].step_number = i - 1
    /\ \A k \in 1..Len(hist) :
         /\ hist[k].count = k - 1
         /\ hist[k].asked /\ k < Len(hist) => hist[k + 1].count = hist[k].count + 1
    /\ hist # <<>> =>
         agent.step_count = (Len(hist) - 1) + (IF hist[Len(hist)].asked THEN 1 ELSE 0)
    /\ Returned => \A i \in 1..Len(result.steps) : result.steps[i].step_number = i - 1

\* The third iteration failed before the model was asked: its record is
\* number 3, after records 0, 1 and 2.
C31_Witness ==
    /\ Returned
    /\ Len(hist) = 3
    /\ hist[2].asked /\ hist[2].count = 1
    /\ hist[3].raised /\ ~hist[3].asked
    /\ Len(result.steps) = 4
    /\ result.steps[4].step_number = 3
    /\ result.steps[4].status = "ERROR"
    /\ agent.step_count = 2

\* The calls among ops that scroll the page.
Scrolls(ops) == {i \in 1..Len(ops) : ops[i].op = "scroll"}

(* C32: for a directive that matches no action keyword, execute_action      *)
(* returns CONTINUE when no call on the page raises (ERROR when one does,   *)
(* never FAILED or COMPLETE), and it scrolls the page, once and by 400,     *)
(* exactly when step_count is at most 3; otherwise it only pauses.          *)
C32_UnknownExplores ==
    Executing /\ call.kind = "UNKNOWN" =>
        /\ call.exec_status = (IF call.exec_raised THEN "ERROR" ELSE "CONTINUE")
        /\ call.exec_raised = (call.f > 0)
        /\ ~call.exec_raised =>
             /\ (Scrolls(call.ops) # {}) = (call.count <= 3)
             /\ call.count <= 3 =>
                  /\ call.ops = <<Op("scroll", "", 400, <<>>), Wait(1500)>>
                  /\ web.scrollY = 400
                  /\ call.message = Msg("Exploring page: ", <<call.action>>)
             /\ call.count > 3 =>
                  /\ call.ops = <<Wait(1000)>>
                  /\ web.scrollY = 0
                  /\ call.message = Msg("Executed: ", <<call.action>>)
             /\ web.dom = call.dom

\* A remark of the model at step_count 3: the last step that explores.
C32_Witness ==
    /\ Executing
    /\ call.action = tThink
    /\ call.kind = "UNKNOWN"
    /\ call.count = 3
    /\ ~call.exec_raised
    /\ web.scrollY = 400
    /\ call.exec_status = "CONTINUE"

\* A step of the agent that is a call of execute_task, of create_session.
TaskStep == pc = "agent" /\ call' # call
CreateStep == pc = "agent" /\ call' = call /\ closeCalls' = closeCalls

(* C33: current_url is changed only by create_session, once the page is     *)
(* loaded, and by a NAVIGATE whose goto and pause succeeded, which set it   *)
(* to the destination.  Every other directive (CLICK, FILL, SCROLL, SEARCH, *)
(* UNKNOWN, COMPLETE, FAILED), a navigation that failed, a task that raised *)
(* before the model was asked and close_session leave it as it was, also    *)
(* when a click loaded another page; the URL in the prompt is this          *)
(* attribute, not the page's address.                                       *)
C33_UrlFrame ==
    [][/\ agent'.current_url # agent.current_url =>
            \/ /\ CreateStep
               /\ agent.page = None
               /\ PageOf(agent'.current_url) # 0
               /\ web'.dom = PageOf(agent'.current_url)
            \/ /\ TaskStep
               /\ ActionKind(call'.action) = "NAVIGATE"
               /\ call'.exec_status = "CONTINUE"
               /\ ~call'.exec_raised
               /\ call'.ops[1].op = "goto"
               /\ agent'.current_url = call'.ops[1].arg
               /\ web'.dom = PageOf(agent'.current_url)
       /\ TaskStep =>
            /\ call'.url = agent'.current_url
            /\ ActionKind(call'.action) # "NAVIGATE" \/ call'.exec_raised \/ ~call'.asked
                 => agent'.current_url = agent.current_url
            /\ PromptUrl(agent') = agent'.current_url
      ]_vars

\* A click on a link loaded another page: current_url, and with it the URL of
\* the next prompt, is still the one create_session set.
C33_Witness ==
    /\ pc = "agent"
    /\ call # NoCall
    /\ call.action = tClickPricing
    /\ ~call.raised /\ ~call.exec_raised
    /\ web.dom = 2
    /\ agent.current_url = uHome
    /\ PromptUrl(agent) # Dom(web).url

\* The calls among ops that click an element.
Clicks(ops) == {i \in 1..Len(ops) : ops[i].op = "click"}

\* The tag a CLICK directive names, and the texts of the page's elements of
\* that tag in document order.
TagOf(action) == IF Contains(Lower(action), kbutton) THEN "button" ELSE "a"
TagTexts(action, dom) ==
    IF Contains(Lower(action), kbutton)
    THEN Pages[dom].buttons
    ELSE [i \in 1..Len(Pages[dom].links) |-> Pages[dom].links[i].text]

\* The target of a CLICK directive: the text behind its first single quote,
\* up to the next single quote or, without one, to the end of the directive.
Aimed(action) ==
    LET q1 == First(Quotes(action))
        q2 == First(Quotes(action) \ {q1})
    IN  IF q1 = 0 THEN <<>>
        ELSE SubSeq(action, q1 + 1, IF q2 = 0 THEN Len(action) ELSE q2 - 1)

\* The element a CLICK directive is due to click: the first whose text
\* contains the target whatever the letter case, else the first of the tag.
Chosen(action, dom) ==
    LET texts == TagTexts(action, dom)
        hits == {i \in 1..Len(texts) : Contains(Lower(texts[i]), Lower(Aimed(action)))}
    IN  IF Quotes(action) # {} /\ hits # {} THEN First(hits) ELSE 1

\* execute_action ran a CLICK on a button or a link, on a page that has an
\* element of the tag.
ClickCase ==
    /\ Executing
    /\ call.kind = "CLICK"
    /\ Contains(Lower(call.action), kbutton) \/ Contains(Lower(call.action), klink)
    /\ TagTexts(call.action, call.dom) # <<>>

\* Every click among the calls made is one on the element due.
OnChosen ==
    \A i \in Clicks(call.ops) :
        /\ call.ops[i].kind = TagOf(call.action)
        /\ call.ops[i].idx = Chosen(call.action, call.dom)

CloseStep == pc = "agent" /\ closeCalls' = closeCalls + 1

(* C35: close_session leaves the agent without playwright, browser and     *)
(* page, and no process running.  On an agent without a page, after        *)
(* close_session or before any create_session, execute_task raises its    *)
(* ValueError: the model is not asked, no call is made on a page, and the  *)
(* agent, step_count included, and the browser are left as they were.  A   *)
(* close_session on an agent that holds no browser and no playwright       *)
(* closes and stops nothing: no process is released a second time.         *)
C35_NoSession ==
    [][/\ CloseStep =>
            /\ agent'.page = None /\ agent'.browser = None /\ agent'.playwright = None
            /\ web'.browser = 0 /\ web'.pw = 0
            /\ web'.closes = web.closes + (IF agent.browser # None THEN 1 ELSE 0)
            /\ web'.stops = web.stops + (IF agent.playwright # None THEN 1 ELSE 0)
            /\ agent.browser = None /\ agent.playwright = None =>
                 web' = web /\ agent' = [agent EXCEPT !.page = None]
            /\ agent'.step_count = agent.step_count
       /\ TaskStep /\ agent.page = None =>
            /\ call'.raised
            /\ call'.error = "ValueError"
            /\ ~call'.asked
            /\ call'.ops = <<>>
            /\ agent' = agent
            /\ web' = web
       /\ TaskStep /\ agent.page # None => call'.error # "ValueError"
      ]_vars

\* close_session was called twice on an agent that had run three tasks, then
\* execute_task: it raised, one browser was closed and one playwright
\* stopped, step_count is still 3.
C35_Witness ==
    /\ pc = "agent"
    /\ closeCalls = 2
    /\ call # NoCall
    /\ call.raised /\ call.error = "ValueError"
    /\ ~call.asked
    /\ call.web.closes = 1 /\ call.web.stops = 1
    /\ web.closes = 1 /\ web.stops = 1
    /\ agent.page = None
    /\ agent.step_count = 3
    /\ agent.session_id = "session"

=============================================================================
